---------------------------- MODULE Spec2Model ----------------------------
(***************************************************************************)
(* A model of the tada event pipeline runtime: the pipeline engine and its *)
(* program index, the filter engine, the webhook retry loop, the delivery  *)
(* fan-out and the realtime (Socket.IO) bus.                               *)
(*                                                                         *)
(* JavaScript objects are modelled as functions whose DOMAIN is the set of *)
(* keys present (an absent key is `undefined`); JavaScript values that an  *)
(* event carries are tagged records [t |-> type, v |-> value].             *)
(*                                                                         *)
(* Each component has its own specification (Spec, SpecFilter, ...) over   *)
(* its own variables; the other components' variables stay unchanged.      *)
(***************************************************************************)
EXTENDS Integers, Sequences, FiniteSets, TLC

VARIABLES
    \* ---- pipeline engine (PipelineEngine, unnamed/part_008) ----
    pipelines,      \* Map<string, Pipeline>: pipeline id -> pipeline
    programIndex,   \* Map<ProgramId, Set<string>>: program id -> ids, in insertion order
    onEvent,        \* "null" | "handler": the registered event handler
    deliveryService,\* "null" | "loaded": unnamed/part_007's delivery module
    stats,          \* eventsProcessed, eventsMatched, eventsFiltered, errors
    lastCall,       \* history: what the last operation did, when it was processEvents
    lastOp,         \* history: the last engine operation ("insert" / "replace" for an upsert)
    \* ---- webhook destination (apps/delivery/src/webhook.ts) ----
    whDestination,  \* the WebhookDestination handed to sendToWebhook
    whPc,           \* "call" | "fetch" | "sleep" | "done": where sendToWebhook stands
    attempt,        \* the loop variable of the retry loop
    whRequests,     \* history: the outcome of every HTTP request issued, in order
    whData,         \* the data record handed to sendToWebhook
    whSent,         \* history: the headers and body of every HTTP request issued, in order
    whSleeps,       \* history: the delay (ms) of every sleep taken, in order
    whResult,       \* "pending" | "true" | "false" | "rejected": how sendToWebhook settled
    \* ---- delivery service (apps/delivery/src/index.ts) ----
    dlDestinations, \* the Destinations object handed to deliverEvent
    dlPc,           \* "call" | "awaiting" | "returned" | "rejected"
    promises,       \* the destinations whose send has not settled yet
    results,        \* the results array of the call under way
    dlOutcome,      \* history: what each settled send settled to
    dlReturned,     \* what deliverEvent resolved to
    deliveryStats,  \* the module's stats object
    \* ---- realtime bus (apps/delivery/src/websocket.ts) ----
    io,               \* "null" | "server": the Socket.IO server singleton
    httpServer,       \* "null" | "server"
    publishedCount,
    connectedClients,
    sockets,          \* the clients with a live connection to the server
    rooms,            \* room name -> the sockets that joined it
    received,         \* history: per client, the 'event' messages it was sent
    wsLast,           \* history: the last sendToWebSocket call
    busCalls,         \* history: "none" | "init" | "close", the last of initWebSocket / closeWebSocket
    \* ---- parser router (apps/ingestion/src/parsers/index.ts) ----
    update,         \* the SubscribeUpdate (envelope) being parsed
    now,            \* the wall clock, in seconds: Math.floor(Date.now() / 1000)
    parsed,         \* history: the last parseTransaction(update) call
    parsedBefore,   \* history: the parseTransaction(update) call before it
    \* ---- transform engine (apps/pipeline/src/transform.ts) ----
    tTransform,     \* the Transform handed to applyTransform
    tEvent,         \* the DecodedEvent handed to applyTransform
    tPipelineId,
    tOutput,        \* [status |-> "pending"] or the TransformedEvent returned
    \* ---- transform pipes (apps/pipeline/src/filter.ts, applyPipe) ----
    pipeCalls,      \* history: [pipe, value, out] of every applyPipe call made, in order
    \* ---- CPI event decoding (the Meteora decoders' inner-instruction loops) ----
    cpiDecoder,     \* the decoder whose loop runs
    cpiInner,       \* the raw data of the envelope's inner instructions, in order
    cpiEvents,      \* [status |-> "pending"] or the events the loop pushed
    \* ---- Meteora DBC decoder (MeteoraDBCParser.parse) ----
    dbcTx,          \* the envelope's outer and inner instructions
    dbcParsed,      \* [status |-> "pending"] or the events parse returned
    \* ---- token identity inference (the Meteora decoders) ----
    mintDecoder,    \* the decoder that enriches an event
    postTokenBalances, \* meta.postTokenBalances: the mint of each entry, "" when missing
    mintData,       \* [status |-> "pending"] or the keys the decoder added to the event data
    \* ---- pipeline loader (apps/ingestion/src/pipeline-loader.ts) ----
    pipelineEngine,    \* "null" | "engine": the loader's engine reference
    supabase,          \* "unset" | "client": whether SUPABASE_URL and SUPABASE_ANON_KEY are set
    pollTimer,         \* "null" | "timer"
    loadedPipelineIds, \* Set<string>
    store,             \* the active rows of the pipelines table, at this moment
    runs,              \* per caller, where its syncPipelines run stands
    ldStarted,         \* how many syncPipelines runs were started
    ldLast,            \* history: the run that completed last
    \* ---- filter engine (apps/pipeline/src/filter.ts) ----
    fFilter,        \* the filter handed to evaluateFilter
    fEvent,         \* the event handed to evaluateFilter
    fResult         \* "pending" | "true" | "false" | "throw"

engineVars == <<pipelines, programIndex, onEvent, deliveryService, stats, lastCall, lastOp>>

webhookVars == <<whDestination, whPc, attempt, whRequests, whSleeps, whResult, whData, whSent>>

filterVars == <<fFilter, fEvent, fResult>>

deliverVars == <<dlDestinations, dlPc, promises, results, dlOutcome, dlReturned, deliveryStats>>

wsVars == <<io, httpServer, publishedCount, connectedClients, sockets, rooms, received, wsLast,
           busCalls>>

parseVars == <<update, now, parsed, parsedBefore>>

transformVars == <<tTransform, tEvent, tPipelineId, tOutput>>

pipeVars == <<pipeCalls>>

\* The components added after the transform engine.
cpiVars == <<cpiDecoder, cpiInner, cpiEvents>>

dbcVars == <<dbcTx, dbcParsed>>

mintVars == <<mintDecoder, postTokenBalances, mintData>>

loaderVars == <<pipelineEngine, supabase, pollTimer, loadedPipelineIds, store, runs, ldStarted,
                ldLast>>

extraVars == <<pipeVars, cpiVars, dbcVars, mintVars, loaderVars>>

vars == <<engineVars, webhookVars, deliverVars, wsVars, parseVars, transformVars, filterVars,
          extraVars>>

notEngineVars    == <<webhookVars, deliverVars, wsVars, parseVars, transformVars, filterVars,
                      extraVars>>
notWebhookVars   == <<engineVars, deliverVars, wsVars, parseVars, transformVars, filterVars,
                      extraVars>>
notDeliverVars   == <<engineVars, webhookVars, wsVars, parseVars, transformVars, filterVars,
                      extraVars>>
notWsVars        == <<engineVars, webhookVars, deliverVars, parseVars, transformVars, filterVars,
                      extraVars>>
notParseVars     == <<engineVars, webhookVars, deliverVars, wsVars, transformVars, filterVars,
                      extraVars>>
notTransformVars == <<engineVars, webhookVars, deliverVars, wsVars, parseVars, filterVars,
                      extraVars>>
notFilterVars    == <<engineVars, webhookVars, deliverVars, wsVars, parseVars, transformVars,
                      extraVars>>
coreVars         == <<engineVars, webhookVars, deliverVars, wsVars, parseVars, transformVars,
                      filterVars>>
notPipeVars      == <<coreVars, cpiVars, dbcVars, mintVars, loaderVars>>
notCpiVars       == <<coreVars, pipeVars, dbcVars, mintVars, loaderVars>>
notDbcVars       == <<coreVars, pipeVars, cpiVars, mintVars, loaderVars>>
notMintVars      == <<coreVars, pipeVars, cpiVars, dbcVars, loaderVars>>
\* The loader drives the engine's pipelines and programIndex.
notLoaderVars    == <<onEvent, deliveryService, stats, lastCall, lastOp, webhookVars, deliverVars,
                      wsVars, parseVars, transformVars, filterVars, pipeVars, cpiVars, dbcVars,
                      mintVars>>

----------------------------------------------------------------------------
(* Plain helpers *)

Merge(f, g) == [k \in (DOMAIN f) \cup (DOMAIN g) |-> IF k \in DOMAIN g THEN g[k] ELSE f[k]]

Without(f, keys) == [k \in (DOMAIN f) \ keys |-> f[k]]

Range(s) == {s[i] : i \in DOMAIN s}

\* The object with no keys, {}.
EmptyObject == [k \in {} |-> TRUE]

----------------------------------------------------------------------------
(* JavaScript values carried by events and filter conditions *)

JsNum(n)  == [t |-> "number", v |-> n]
JsStr(s)  == [t |-> "string", v |-> s]
JsBool(b) == [t |-> "boolean", v |-> b]
JsObj(o)  == [t |-> "object", v |-> o]
JsArr(a)  == [t |-> "array", v |-> a]
JsNull    == [t |-> "null"]
JsUndefined == [t |-> "undefined"]

IsNullish(x) == x.t \in {"null", "undefined"}

\* Addresses used by the model (base58, 43 or 44 characters long).
PUMP_ADDR   == "6EF8rrecthR5Dkzon8Nwu78hRvfCKubJ14M5uBEwF6P"
WALLET_A    == "JUP6LkbZbjS1jKKwapdHNy74zcZ3tLUZoi5QNyVTaV4"
WALLET_B    == "675kPX9MHTjS2zt1qfr1NYHuzeLXfQM9H24wFSUt1Mp8"

\* value.length >= 32 for the strings of the model.
LengthAtLeast32(s) == s \in {PUMP_ADDR, WALLET_A, WALLET_B}

\* parseFloat(s) for the strings of the model: [nan |-> TRUE] or [nan |-> FALSE, v |-> n].
NaN == [nan |-> TRUE]
Finite(n) == [nan |-> FALSE, v |-> n]

parseFloat(s) ==
    CASE s = "0"  -> Finite(0)
      [] s = "1"  -> Finite(1)
      [] s = "5"  -> Finite(5)
      [] s = "20" -> Finite(20)
      [] s = "500000000"   -> Finite(500000000)
      [] s = "2000000000"  -> Finite(2000000000)
      [] s = "5000000"     -> Finite(5000000)
      [] OTHER -> NaN

\* String(x) for the values of the model.
NumToString(n) ==
    CASE n = 0  -> "0"
      [] n = 1  -> "1"
      [] n = 5  -> "5"
      [] n = 20 -> "20"
      [] n = 500000000   -> "500000000"
      [] n = 2000000000  -> "2000000000"
      [] n = 5000000     -> "5000000"
      [] OTHER -> "<number>"

String(x) ==
    CASE x.t = "string"    -> x.v
      [] x.t = "number"    -> NumToString(x.v)
      [] x.t = "boolean"   -> IF x.v THEN "true" ELSE "false"
      [] x.t = "null"      -> "null"
      [] x.t = "undefined" -> "undefined"
      [] OTHER             -> "[object]"

\* s.toLowerCase() for the strings of the model.
toLowerCase(s) ==
    CASE s = "TradeEvent" -> "tradeevent"
      [] s = "BuyEvent"   -> "buyevent"
      [] s = "SellEvent"  -> "sellevent"
      [] s = "EvtSwap2"   -> "evtswap2"
      [] s = "Trade"      -> "trade"
      [] s = "BUY"        -> "buy"
      [] OTHER -> s

\* hay.includes(needle) for lower-case strings of the model.
includes(hay, needle) ==
    \/ hay = needle
    \/ needle = ""
    \/ /\ needle = "buy"   /\ hay \in {"buyevent"}
    \/ /\ needle = "sell"  /\ hay \in {"sellevent"}
    \/ /\ needle = "trade" /\ hay \in {"tradeevent"}
    \/ /\ needle = "event" /\ hay \in {"tradeevent", "buyevent", "sellevent"}

----------------------------------------------------------------------------
(* Filter engine: apps/pipeline/src/filter.ts *)

\* The number a value coerces to in isNaN(x) and in x > y (strings were parsed
\* by parseFloat before; arrays and objects of the model coerce to NaN).
ToNumber(x) ==
    CASE x.t = "number"  -> Finite(x.v)
      [] x.t = "boolean" -> Finite(IF x.v THEN 1 ELSE 0)
      [] x.t = "null"    -> Finite(0)
      [] x.t = "string"  -> parseFloat(x.v)
      [] OTHER           -> NaN

\* actual === expected
StrictEquals(a, b) ==
    /\ a.t = b.t
    /\ a.t \in {"number", "string", "boolean", "null", "undefined"}
    /\ (a.t \in {"number", "string", "boolean"} => a.v = b.v)

\* current[part] for a non-nullish current
Property(current, part) ==
    IF current.t = "object" /\ part \in DOMAIN current.v
    THEN current.v[part]
    ELSE JsUndefined

\* getFieldValue(event, field): the field path is the field string split at '.'
RECURSIVE WalkPath(_, _)
WalkPath(current, parts) ==
    IF parts = <<>> THEN current
    ELSE IF IsNullish(current) THEN JsUndefined
    ELSE WalkPath(Property(current, Head(parts)), Tail(parts))

getFieldValue(event, field) == WalkPath(JsObj(event), field)

\* Mutant of compareNullish: an absent value is unequal to everything.
compareNullishNeverEqual(op, expected) == op = "neq"

\* compareValues for an actual value that is undefined or null (lines 137-141)
compareNullish(op, expected) ==
    CASE op = "eq"  -> IsNullish(expected)
      [] op = "neq" -> ~IsNullish(expected)
      [] OTHER      -> FALSE

compareValues(actual, op, expected) ==
    IF IsNullish(actual)
    THEN compareNullish(op, expected)
    ELSE
    LET numActual   == ToNumber(actual)
        numExpected == ToNumber(expected)
        bothNumbers == ~numActual.nan /\ ~numExpected.nan
    IN  CASE op = "eq"  -> StrictEquals(actual, expected) \/ String(actual) = String(expected)
          [] op = "neq" -> ~StrictEquals(actual, expected) /\ String(actual) # String(expected)
          [] op = "gt"  -> bothNumbers /\ numActual.v > numExpected.v
          [] op = "gte" -> bothNumbers /\ numActual.v >= numExpected.v
          [] op = "lt"  -> bothNumbers /\ numActual.v < numExpected.v
          [] op = "lte" -> bothNumbers /\ numActual.v <= numExpected.v
          [] op = "in"  ->
                IF expected.t # "array" THEN FALSE
                ELSE \/ \E i \in DOMAIN expected.v : StrictEquals(expected.v[i], actual)
                     \/ \E i \in DOMAIN expected.v : String(expected.v[i]) = String(actual)
          [] op = "nin" ->
                IF expected.t # "array" THEN TRUE
                ELSE /\ ~\E i \in DOMAIN expected.v : StrictEquals(expected.v[i], actual)
                     /\ ~\E i \in DOMAIN expected.v : String(expected.v[i]) = String(actual)
          [] op = "contains" ->
                IF actual.t # "string" THEN FALSE
                ELSE includes(toLowerCase(actual.v), toLowerCase(String(expected)))
          [] OTHER -> FALSE

\* condition.field.split('.') raises a TypeError when the condition has no field.
evaluateConditionThrows(condition) == "field" \notin DOMAIN condition

evaluateCondition(condition, event) ==
    compareValues(getFieldValue(event, condition.field), condition.op,
                  IF "value" \in DOMAIN condition THEN condition.value ELSE JsUndefined)

AccountFields ==
    {"pool", "user", "mint", "tokenMint", "baseMint", "quoteMint",
     "authority", "owner", "payer", "creator", "config", "tokenAccount",
     "sourceTokenAccount", "destinationTokenAccount", "feeAccount"}

\* extractAccounts(event), as the set of its elements (it is only searched).
RECURSIVE extract(_)
extract(obj) ==
    IF obj.t \notin {"object"} THEN {}
    ELSE UNION {
            (IF k \in AccountFields /\ obj.v[k].t = "string" /\ LengthAtLeast32(obj.v[k].v)
             THEN {obj.v[k].v} ELSE {})
            \cup extract(obj.v[k]) : k \in DOMAIN obj.v }

extractAccounts(event) == {event.signer.v} \cup extract(event.data)

\* Lines 27-69 of evaluateFilter: the predicates of one filter object.
\* The first condition without a field raises; conditions before it decide first.
evaluatePredicatesThrows(filter, event) ==
    /\ ~ ( /\ "instructions" \in DOMAIN filter
           /\ Len(filter.instructions) > 0
           /\ event.name.v \notin Range(filter.instructions) )
    /\ ~ ( /\ "accounts" \in DOMAIN filter
           /\ \/ /\ "include" \in DOMAIN filter.accounts
                 /\ Len(filter.accounts.include) > 0
                 /\ Range(filter.accounts.include) \cap extractAccounts(event) = {}
              \/ /\ "exclude" \in DOMAIN filter.accounts
                 /\ Len(filter.accounts.exclude) > 0
                 /\ Range(filter.accounts.exclude) \cap extractAccounts(event) # {} )
    /\ "conditions" \in DOMAIN filter
    /\ \E i \in DOMAIN filter.conditions :
          /\ evaluateConditionThrows(filter.conditions[i])
          /\ \A j \in 1..(i-1) : /\ ~evaluateConditionThrows(filter.conditions[j])
                                 /\ evaluateCondition(filter.conditions[j], event)

\* Mutant of evaluatePredicates: isBuy compared with data.is_buy even when the
\* event carries no direction.
evaluatePredicatesStrictIsBuy(filter, event) ==
    /\ ( "isBuy" \in DOMAIN filter =>
            /\ "is_buy" \in DOMAIN event.data.v
            /\ event.data.v.is_buy = JsBool(filter.isBuy) )
    /\ ( ("instructions" \in DOMAIN filter /\ Len(filter.instructions) > 0)
            => event.name.v \in Range(filter.instructions) )
    /\ ( "conditions" \in DOMAIN filter =>
            \A i \in DOMAIN filter.conditions :
                /\ ~evaluateConditionThrows(filter.conditions[i])
                /\ evaluateCondition(filter.conditions[i], event) )

evaluatePredicates(filter, event) ==
    /\ ( ("instructions" \in DOMAIN filter /\ Len(filter.instructions) > 0)
            => event.name.v \in Range(filter.instructions) )
    /\ ( "accounts" \in DOMAIN filter =>
            /\ ( ("include" \in DOMAIN filter.accounts /\ Len(filter.accounts.include) > 0)
                    => Range(filter.accounts.include) \cap extractAccounts(event) # {} )
            /\ ( ("exclude" \in DOMAIN filter.accounts /\ Len(filter.accounts.exclude) > 0)
                    => Range(filter.accounts.exclude) \cap extractAccounts(event) = {} ) )
    /\ ( "conditions" \in DOMAIN filter =>
            \A i \in DOMAIN filter.conditions :
                /\ ~evaluateConditionThrows(filter.conditions[i])
                /\ evaluateCondition(filter.conditions[i], event) )

\* Array.prototype.every / some over the results of the callback
every(bs) == \A i \in DOMAIN bs : bs[i]

\* Mutant of some: $or evaluated like $and.
someAsEvery(bs) == \A i \in DOMAIN bs : bs[i]

some(bs) == \E i \in DOMAIN bs : bs[i]

HasList(filter, key) == key \in DOMAIN filter /\ Len(filter[key]) > 0

\* Mutant of evaluateFilter: the keys beside $and / $or are checked as well.
RECURSIVE evaluateFilterSiblingsApply(_, _)
evaluateFilterSiblingsApply(filter, event) ==
    IF DOMAIN filter = {} THEN TRUE
    ELSE IF HasList(filter, "$and")
         THEN /\ every([i \in DOMAIN filter["$and"] |->
                           evaluateFilterSiblingsApply(filter["$and"][i], event)])
              /\ evaluatePredicates(filter, event)
    ELSE IF HasList(filter, "$or")
         THEN /\ some([i \in DOMAIN filter["$or"] |->
                          evaluateFilterSiblingsApply(filter["$or"][i], event)])
              /\ evaluatePredicates(filter, event)
    ELSE evaluatePredicates(filter, event)

RECURSIVE evaluateFilter(_, _)
evaluateFilter(filter, event) ==
    IF DOMAIN filter = {} THEN TRUE
    ELSE IF HasList(filter, "$and")
         THEN every([i \in DOMAIN filter["$and"] |-> evaluateFilter(filter["$and"][i], event)])
    ELSE IF HasList(filter, "$or")
         THEN some([i \in DOMAIN filter["$or"] |-> evaluateFilter(filter["$or"][i], event)])
    ELSE evaluatePredicates(filter, event)

\* Whether evaluateFilter(filter, event) raises: every() stops at the first
\* false child and some() at the first true one, so a child raises only when
\* it is reached.
RECURSIVE evaluateFilterThrows(_, _)
evaluateFilterThrows(filter, event) ==
    IF DOMAIN filter = {} THEN FALSE
    ELSE IF HasList(filter, "$and")
         THEN \E i \in DOMAIN filter["$and"] :
                /\ evaluateFilterThrows(filter["$and"][i], event)
                /\ \A j \in 1..(i-1) : /\ ~evaluateFilterThrows(filter["$and"][j], event)
                                       /\ evaluateFilter(filter["$and"][j], event)
    ELSE IF HasList(filter, "$or")
         THEN \E i \in DOMAIN filter["$or"] :
                /\ evaluateFilterThrows(filter["$or"][i], event)
                /\ \A j \in 1..(i-1) : /\ ~evaluateFilterThrows(filter["$or"][j], event)
                                       /\ ~evaluateFilter(filter["$or"][j], event)
    ELSE evaluatePredicatesThrows(filter, event)

----------------------------------------------------------------------------
(* Inputs of the filter engine *)

\* Bound: the longest $and / $or list of the generated filters.
MaxChildren == 2

SeqsUpTo(S, n) == UNION {[1..k -> S] : k \in 1..n}

MkEvent(id, program, name, data) ==
    [ id        |-> JsStr(id),
      program   |-> JsStr(program),
      name      |-> JsStr(name),
      signature |-> JsStr("sig1"),
      blockTime |-> JsNum(5),
      signer    |-> JsStr(WALLET_A),
      data      |-> JsObj(data) ]

EvTradeBuy ==
    MkEvent("sig1:pump:0", "PUMP_BONDING_CURVE", "TradeEvent",
            [is_buy |-> JsBool(TRUE), sol_amount |-> JsStr("2000000000"),
             token_amount |-> JsStr("5000000"), mint |-> JsStr(PUMP_ADDR)])
EvTradeSell ==
    MkEvent("sig1:pump:1", "PUMP_BONDING_CURVE", "TradeEvent",
            [is_buy |-> JsBool(FALSE), sol_amount |-> JsStr("500000000"),
             token_amount |-> JsStr("5"), user |-> JsStr(WALLET_B)])
EvBuyByName ==
    MkEvent("sig1:pswap:0", "PUMPSWAP", "BuyEvent", [pool |-> JsStr(WALLET_B)])
EvSellByName ==
    MkEvent("sig1:pswap:1", "PUMPSWAP", "SellEvent", [quote_amount |-> JsNum(2000000000)])
EvSwapDir0 ==
    MkEvent("sig1:dbc:0", "METEORA_DBC", "EvtSwap2",
            [trade_direction |-> JsNum(0), amount |-> JsNum(20)])
EvSwapDir1 ==
    MkEvent("sig1:dbc:1", "METEORA_DBC", "EvtSwap2",
            [trade_direction |-> JsNum(1),
             swap_result |-> JsObj([output_amount |-> JsStr("5")])])
EvCreate ==
    MkEvent("sig1:pump:2", "PUMP_BONDING_CURVE", "CreateEvent", EmptyObject)

FilterEvents ==
    {EvTradeBuy, EvTradeSell, EvBuyByName, EvSellByName, EvSwapDir0, EvSwapDir1, EvCreate}

CondIsBuyTrue == [field |-> <<"data", "is_buy">>, op |-> "eq", value |-> JsBool(TRUE)]
CondSolGte1   == [field |-> <<"data", "sol_amount">>, op |-> "gte", value |-> JsNum(500000000)]
CondNoField   == [op |-> "eq", value |-> JsStr("TradeEvent")]

\* Filters without $and / $or children.
LeafFilters ==
    { EmptyObject,
      [instructions |-> <<"TradeEvent">>],
      [isBuy |-> TRUE],
      [isBuy |-> FALSE],
      [solAmount |-> [min |-> 1]],
      [solAmount |-> [max |-> 1]],
      [tokenAmount |-> [min |-> 20]],
      [isBuy |-> TRUE, instructions |-> <<"TradeEvent", "BuyEvent">>],
      [conditions |-> <<CondIsBuyTrue>>],
      [conditions |-> <<CondSolGte1>>],
      [accounts |-> [include |-> <<WALLET_B>>]],
      [accounts |-> [exclude |-> <<PUMP_ADDR>>]] }

\* An event whose data has a null field.
EvNullField ==
    MkEvent("sig1:pump:4", "PUMP_BONDING_CURVE", "TradeEvent",
            [referrer |-> JsNull, amount |-> JsNum(5), mint |-> JsStr("5")])

\* Filters of one condition: defined, null and undefined actual values under
\* every operator and an unknown one.
ConditionFields ==
    { <<"data", "missing">>, <<"data", "referrer">>, <<"data", "referrer", "x">>,
      <<"data", "amount">>, <<"data", "mint">>, <<"name">> }

ConditionOps == {"eq", "neq", "gt", "gte", "lt", "lte", "in", "nin", "contains", "regex"}

ConditionValues ==
    { JsNull, JsUndefined, JsNum(5), JsStr("5"), JsStr("TradeEvent"),
      JsArr(<<JsNum(5), JsNull>>), JsArr(<<JsStr("1")>>) }

ConditionFilters ==
    { [conditions |-> <<[field |-> f, op |-> o, value |-> v]>>] :
        f \in ConditionFields, o \in ConditionOps, v \in ConditionValues }
      \cup { [conditions |-> <<[field |-> f, op |-> o]>>] : f \in ConditionFields, o \in ConditionOps }

\* A filter whose evaluation raises once its condition is reached.
MalformedFilter == [conditions |-> <<CondNoField>>]

\* Keys that may stand beside $and / $or on the same object.
SiblingKeys == { EmptyObject, [instructions |-> <<"SellEvent">>], [isBuy |-> FALSE] }

Composites(children, n) ==
    { Merge(sib, [k \in {op} |-> list]) :
        sib \in SiblingKeys, op \in {"$and", "$or"}, list \in SeqsUpTo(children, n) }

CoreLeaves == { EmptyObject, [isBuy |-> TRUE], [instructions |-> <<"TradeEvent">>] }

NestedFilters ==
    { [k \in {op} |-> list] :
        op \in {"$and", "$or"},
        list \in SeqsUpTo(Composites(CoreLeaves, 1) \cup {[isBuy |-> FALSE]}, 2) }

\* $and / $or beside accounts, conditions, instructions and one another.
SiblingFilters ==
    LET lists == SeqsUpTo(CoreLeaves, 2)
        others == { [accounts |-> [include |-> <<WALLET_B>>]],
                    [conditions |-> <<CondIsBuyTrue>>],
                    [conditions |-> <<CondNoField>>],
                    [accounts |-> [exclude |-> <<PUMP_ADDR>>], conditions |-> <<CondSolGte1>>,
                     instructions |-> <<"SellEvent">>] }
    IN  { Merge(sib, [k \in {op} |-> list]) :
            sib \in others, op \in {"$and", "$or"}, list \in lists }
          \cup { Merge(sib, [k \in {"$and", "$or"} |-> IF k = "$and" THEN a ELSE o]) :
                    sib \in {EmptyObject, [conditions |-> <<CondIsBuyTrue>>]},
                    a \in lists \cup {<<>>}, o \in {<<EmptyObject>>, <<[isBuy |-> FALSE]>>,
                                                     <<[instructions |-> <<"TradeEvent">>]>>} }

Filters ==
    LeafFilters
      \cup { MalformedFilter,
             [k \in {"$and"} |-> <<>>],
             [k \in {"$and", "$or"} |-> IF k = "$and" THEN <<>> ELSE <<[isBuy |-> TRUE], EmptyObject>>],
             [k \in {"$and", "$or"} |-> IF k = "$and" THEN <<[instructions |-> <<"TradeEvent">>]>>
                                                     ELSE <<EmptyObject>>] }
      \cup Composites(LeafFilters, MaxChildren)
      \cup NestedFilters
      \cup ConditionFilters
      \cup SiblingFilters

----------------------------------------------------------------------------
(* Transform engine (raw template): apps/pipeline/src/filter.ts:209-268 *)

\* transform.mode raises a TypeError when the pipeline has no transform.
applyTransformThrows(pipeline) == "transform" \notin DOMAIN pipeline

\* LAMPORTS_PER_SOL = 1_000_000_000
LAMPORTS_PER_SOL == 1000000000

\* JavaScript truthiness of a value.
Truthy(x) ==
    CASE x.t \in {"null", "undefined"} -> FALSE
      [] x.t = "boolean" -> x.v
      [] x.t = "number"  -> x.v # 0
      [] x.t = "string"  -> x.v # ""
      [] OTHER -> TRUE

\* obj.a || obj.b || ... : the first truthy operand, else the last one.
RECURSIVE OrChain(_, _)
OrChain(obj, names) ==
    IF Len(names) = 1 THEN Property(obj, names[1])
    ELSE IF Truthy(Property(obj, Head(names))) THEN Property(obj, Head(names))
    ELSE OrChain(obj, Tail(names))

\* x || null
OrNull(x) == IF Truthy(x) THEN x ELSE JsNull

\* d.a !== undefined ? d.a : d.b
DefinedOr(obj, a, b) ==
    IF Property(obj, a) # JsUndefined THEN Property(obj, a) ELSE Property(obj, b)

\* toNumber(value) of the transform engine (lines 471-479)
toNumber(value) ==
    CASE value.t = "number" -> value.v
      [] value.t = "string" -> IF parseFloat(value.v).nan THEN 0 ELSE parseFloat(value.v).v
      [] OTHER -> 0

\* The number n / d, kept exact.
JsRatio(n, d) == [t |-> "number", v |-> n, per |-> d]

\* The direction by the documented precedence: explicit is_buy first, then
\* trade_direction (0 = buy), then the event name, else swap.
tradeDirectionByPrecedence(event) ==
    LET d == event.data
        name == toLowerCase(event.name.v)
        isBuy == DefinedOr(d, "is_buy", "isBuy")
        dir == DefinedOr(d, "trade_direction", "tradeDirection")
    IN  IF isBuy # JsUndefined THEN (IF isBuy = JsBool(TRUE) THEN "buy" ELSE "sell")
        ELSE IF dir # JsUndefined THEN (IF dir = JsNum(0) THEN "buy" ELSE "sell")
        ELSE IF includes(name, "buy") THEN "buy"
        ELSE IF includes(name, "sell") THEN "sell"
        ELSE "swap"

\* extractTradeData: the direction (lines 285-295)
tradeDirection(event) ==
    LET d == event.data
        name == toLowerCase(event.name.v)
        isBuy == DefinedOr(d, "is_buy", "isBuy")
        dir == DefinedOr(d, "trade_direction", "tradeDirection")
    IN  IF includes(name, "buy") \/ isBuy = JsBool(TRUE) \/ dir = JsNum(0) THEN "buy"
        ELSE IF includes(name, "sell") \/ isBuy = JsBool(FALSE) \/ dir = JsNum(1) THEN "sell"
        ELSE "swap"

\* A key that is set only when its value is not undefined.
SetIfDefined(key, x, value) == IF x = JsUndefined THEN EmptyObject ELSE [k \in {key} |-> value]

\* extractTradeData(event) (lines 274-348)
extractTradeData(event) ==
    LET d == event.data
        solAmount == OrChain(d, <<"sol_amount", "solAmount", "quote_amount", "quoteAmount",
                                  "sol_reserve_amount", "solReserveAmount">>)
        tokenAmount == OrChain(d, <<"token_amount", "tokenAmount", "base_amount",
                                    "baseAmount", "amount">>)
        inputAmount == OrChain(d, <<"input_amount", "inputAmount">>)
        outputAmount == OrChain(d, <<"output_amount", "outputAmount">>)
        swapResult == OrChain(d, <<"swap_result", "swapResult">>)
        virtualSol == OrChain(d, <<"virtual_sol_reserves", "virtualSolReserves">>)
        virtualToken == OrChain(d, <<"virtual_token_reserves", "virtualTokenReserves">>)
        common ==
            [type      |-> JsStr("trade"),
             eventName |-> event.name,
             trader    |-> event.signer,
             direction |-> JsStr(tradeDirection(event)),
             token     |-> OrNull(OrChain(d, <<"mint", "token_mint", "tokenMint", "base_mint",
                                               "baseMint", "input_mint", "inputMint", "pool">>)),
             pool      |-> OrNull(Property(d, "pool"))]
        amounts ==
            Merge(Merge(SetIfDefined("solAmount", solAmount,
                                     JsRatio(toNumber(solAmount), LAMPORTS_PER_SOL)),
                        SetIfDefined("tokenAmount", tokenAmount, JsNum(toNumber(tokenAmount)))),
                  Merge(SetIfDefined("inputAmount", inputAmount, JsNum(toNumber(inputAmount))),
                        SetIfDefined("outputAmount", outputAmount, JsNum(toNumber(outputAmount)))))
        swap ==
            IF ~Truthy(swapResult) THEN EmptyObject
            ELSE [inputAmount  |-> JsNum(toNumber(OrChain(swapResult,
                                      <<"included_fee_input_amount", "includedFeeInputAmount",
                                        "actual_input_amount", "actualInputAmount">>))),
                  outputAmount |-> JsNum(toNumber(OrChain(swapResult,
                                      <<"output_amount", "outputAmount">>))),
                  tradingFee   |-> JsNum(toNumber(OrChain(swapResult,
                                      <<"trading_fee", "tradingFee">>)))]
        price ==
            IF Truthy(virtualSol) /\ Truthy(virtualToken) /\ toNumber(virtualToken) > 0
            THEN [price |-> JsRatio(toNumber(virtualSol), toNumber(virtualToken))]
            ELSE EmptyObject
    IN  Merge(Merge(common, amounts), Merge(swap, price))

\* Mutant of applyTemplate: the raw template copies event.data only.
applyTemplateDataOnly(template, event) ==
    CASE template = "trade" -> extractTradeData(event)
      [] template \notin {"trade", "transfer", "migration"} -> event.data.v

\* applyTemplate: 'trade' and 'raw' (also the default); the transfer and
\* migration templates are not part of this model.
applyTemplate(template, event) ==
    CASE template = "trade" -> extractTradeData(event)
      [] template \notin {"trade", "transfer", "migration"} ->
            Merge([name |-> event.name, program |-> event.program, signer |-> event.signer],
                  event.data.v)

applyTransform(transform, event, pipelineId) ==
    [ id         |-> event.id.v,
      pipelineId |-> pipelineId,
      program    |-> event.program.v,
      timestamp  |-> event.blockTime.v * 1000,
      signature  |-> event.signature.v,
      data       |-> CASE transform.mode = "template" ->
                            applyTemplate(IF "template" \in DOMAIN transform
                                          THEN transform.template ELSE "raw", event)
                       [] transform.mode = "code" -> applyTemplate("raw", event)
                       [] transform.mode \notin {"template", "fields", "code"} ->
                            applyTemplate("raw", event) ]

----------------------------------------------------------------------------
(* Transform pipes: applyPipe (filter.ts:427-466)                           *)
(*                                                                         *)
(* Token reserves exceed TLC's integers, so in this section a number       *)
(* stands for that many units of 10^11 raw tokens: the constant            *)
(* 793_100_000_000_000 is 7931 units.  Every operation applyPipe performs  *)
(* on the value (subtraction, division and multiplication by positive      *)
(* constants, min, max, round) is carried out exactly on the ratio.        *)

PUMP_INITIAL_REAL_TOKEN_RESERVES == 7931

\* Math.round(num / den) for den > 0: the nearest integer, halves towards +Infinity.
MathRound(num, den) == (2 * num + den) \div (2 * den)

\* Mutant of Clamp0To100: no clamping.
ClampNothing(num, den) == num

\* Math.max(0, Math.min(100, num / den)) for den > 0, as a ratio over den.
Clamp0To100(num, den) ==
    IF num > 100 * den THEN 100 * den ELSE IF num < 0 THEN 0 ELSE num

\* case 'bondingCurveProgress' (lines 455-461): the result in hundredths.
bondingCurveProgress(value) ==
    LET currentReserves == toNumber(value)
        den == PUMP_INITIAL_REAL_TOKEN_RESERVES
        progressNum == (PUMP_INITIAL_REAL_TOKEN_RESERVES - currentReserves) * 100
    IN  JsRatio(MathRound(Clamp0To100(progressNum, den) * 100, den), 100)

\* applyPipe(value, pipe); the string pipes base58, timestamp and shorten are
\* not part of this model.
applyPipe(value, pipe) ==
    CASE pipe = "lamportsToSol" -> JsRatio(toNumber(value), LAMPORTS_PER_SOL)
      [] pipe = "bondingCurveProgress" -> bondingCurveProgress(value)
      [] pipe \notin {"lamportsToSol", "base58", "timestamp", "shorten",
                      "bondingCurveProgress"} -> value

----------------------------------------------------------------------------
(* CPI event decoding: the inner-instruction loops of the Meteora decoders *)
(* (part_003:158-202, part_002:42-100, part_001:46-113, meteora-dlmm.ts)   *)
(*                                                                         *)
(* Raw instruction data is a record: len is its length in bytes, w1 and w2 *)
(* say what its bytes 0..7 and 8..15 are (the Anchor CPI wrapper           *)
(* discriminator "cpi", the discriminator of an event without fields       *)
(* "evtEmpty", of an event with fields "evt", of the DBC program's         *)
(* EvtSwap2 "swap2", or "other"), ok1 and ok2 say whether the bytes after  *)
(* that discriminator decode under its event's layout.                     *)

\* Bound: the inner instructions of one envelope.
MaxInner == 1

\* The bytes EvtSwap2's fixed fields take after its discriminator (part_003:213-240).
SWAP2_FIXED_BYTES == 155

CpiDecoders == {"METEORA_DBC", "METEORA_DAMM_V1", "METEORA_DAMM_V2", "METEORA_DLMM"}

\* Anchor's BorshEventCoder.decode on the data from one discriminator on:
\* null for an unknown discriminator, the event when its layout decodes,
\* an exception when it does not.
anchorDecode(w, ok) ==
    IF w \notin {"evt", "evtEmpty"} THEN "null" ELSE IF ok THEN "event" ELSE "throw"

\* MeteoraDBCParser.decodeEvent (part_003:191-202): EvtSwap2 only; a failed
\* decode is caught in decodeEvtSwap2 and gives null.
dbcDecodeEvent(w, ok) == IF w = "swap2" /\ ok THEN "event" ELSE "null"

NoEvent == [found |-> FALSE]
EventAt(offset) == [found |-> TRUE, offset |-> offset]

\* decodeEvent of the DAMM v1 and DLMM decoders (part_002:79-100,
\* meteora-dlmm.ts:84-105): one try block around both attempts.
decodeEventV1(data) ==
    LET first == anchorDecode(data.w1, data.ok1) IN
    IF first = "throw" THEN NoEvent
    ELSE IF first = "event" THEN EventAt(0)
    ELSE IF data.len > 16 /\ anchorDecode(data.w2, data.ok2) = "event" THEN EventAt(8)
    ELSE NoEvent

\* decodeEvent of the DAMM v2 decoder (part_001:85-113): a known wrapper is
\* stripped before the first attempt.
decodeEventV2(data) ==
    LET hasWrapper == data.w1 = "cpi"
        first == IF hasWrapper THEN anchorDecode(data.w2, data.ok2)
                 ELSE anchorDecode(data.w1, data.ok1)
    IN  IF first = "throw" THEN NoEvent
        ELSE IF first = "event" THEN EventAt(IF hasWrapper THEN 8 ELSE 0)
        ELSE IF ~hasWrapper /\ data.len > 16 /\ anchorDecode(data.w2, data.ok2) = "event"
             THEN EventAt(8)
        ELSE NoEvent

\* The two attempts of MeteoraDBCParser.extractCPIEvents (part_003:170-178).
decodeEventDBC(data) ==
    IF dbcDecodeEvent(data.w1, data.ok1) = "event" THEN EventAt(0)
    ELSE IF data.len > 8 /\ dbcDecodeEvent(data.w2, data.ok2) = "event" THEN EventAt(8)
    ELSE NoEvent

decodeCpiEvent(decoder, data) ==
    CASE decoder = "METEORA_DBC" -> decodeEventDBC(data)
      [] decoder = "METEORA_DAMM_V2" -> decodeEventV2(data)
      [] decoder \in {"METEORA_DAMM_V1", "METEORA_DLMM"} -> decodeEventV1(data)

\* The loop over the inner instructions: data shorter than 16 bytes is
\* skipped, a decoded event is pushed.
RECURSIVE extractCPIEvents(_, _, _, _)
extractCPIEvents(decoder, inner, i, events) ==
    IF i > Len(inner) THEN events
    ELSE LET data == inner[i]
             decoded == decodeCpiEvent(decoder, data)
         IN  extractCPIEvents(decoder, inner, i + 1,
                 IF data.len < 16 \/ ~decoded.found THEN events
                 ELSE Append(events, [instruction |-> i, offset |-> decoded.offset]))

----------------------------------------------------------------------------
(* Pipeline engine: unnamed/part_008 *)

\* Set.prototype.add / delete on an insertion-ordered set
SetAdd(set, x) == IF x \in Range(set) THEN set ELSE Append(set, x)
SetDelete(set, x) == SelectSeq(set, LAMBDA y : y # x)

RECURSIVE addProgramsToIndex(_, _, _)
addProgramsToIndex(index, programs, id) ==
    IF programs = <<>> THEN index
    ELSE LET g      == Head(programs)
             bucket == IF g \in DOMAIN index THEN index[g] ELSE <<>>
         IN  addProgramsToIndex(Merge(index, [k \in {g} |-> SetAdd(bucket, id)]),
                                Tail(programs), id)

\* Mutant of addToIndex: only the first program is indexed.
addToIndexFirstProgramOnly(index, pipeline) ==
    addProgramsToIndex(index, SubSeq(pipeline.programs, 1, 1), pipeline.id)

addToIndex(index, pipeline) == addProgramsToIndex(index, pipeline.programs, pipeline.id)

\* Mutant of removeProgramsFromIndex: a bucket that became empty is kept.
removeProgramsKeepBuckets(index, programs, id) ==
    [g \in DOMAIN index |-> IF g \in Range(programs) THEN SetDelete(index[g], id) ELSE index[g]]

RECURSIVE removeProgramsFromIndex(_, _, _)
removeProgramsFromIndex(index, programs, id) ==
    IF programs = <<>> THEN index
    ELSE LET g == Head(programs)
             next == IF g \notin DOMAIN index THEN index
                     ELSE IF SetDelete(index[g], id) = <<>> THEN Without(index, {g})
                     ELSE Merge(index, [k \in {g} |-> SetDelete(index[g], id)])
         IN  removeProgramsFromIndex(next, Tail(programs), id)

\* Mutant of removeFromIndex: the previous version stays indexed.
removeFromIndexSkipped(index, pls, pipelineId) == index

removeFromIndex(index, pls, pipelineId) ==
    IF pipelineId \notin DOMAIN pls THEN index
    ELSE removeProgramsFromIndex(index, pls[pipelineId].programs, pipelineId)

\* Mutant of pipelinesForProgram: the status is not looked at.
pipelinesForProgramAnyStatus(index, pls, programId) ==
    IF programId \in DOMAIN index
    THEN [i \in DOMAIN index[programId] |-> pls[index[programId][i]]]
    ELSE <<>>

\* getPipelinesForProgram(programId), on a given index and pipeline map
pipelinesForProgram(index, pls, programId) ==
    IF programId \notin DOMAIN index THEN <<>>
    ELSE LET ids == SelectSeq(index[programId],
                              LAMBDA id : id \in DOMAIN pls /\ pls[id].status = "active")
         IN  [i \in DOMAIN ids |-> pls[ids[i]]]

getPipelinesForProgram(programId) == pipelinesForProgram(programIndex, pipelines, programId)

\* The handler registered by unnamed/part_007 is async: what it raises rejects
\* the promise it returned. It reads Object.keys(pipeline.destinations) and
\* calls deliverEvent(event, pipeline.destinations) when the delivery module
\* is loaded; both raise a TypeError on a pipeline without destinations.
handlerRejects(pipeline) ==
    /\ deliveryService = "loaded"
    /\ "destinations" \notin DOMAIN pipeline

Bump(st, counter) == [st EXCEPT ![counter] = @ + 1]

\* One iteration of processEvent's loop. acc: stats, results, handled, raised.
processPipeline(acc, pipeline, event) ==
    IF evaluateFilterThrows(pipeline.filter, event)
    THEN [acc EXCEPT !.stats = Bump(@, "errors"),
                     !.raised = Append(@, <<pipeline.id, event.id.v, "filter">>)]
    ELSE IF ~evaluateFilter(pipeline.filter, event)
    THEN [acc EXCEPT !.stats = Bump(@, "eventsFiltered")]
    ELSE IF applyTransformThrows(pipeline)
    THEN [acc EXCEPT !.stats = Bump(Bump(@, "eventsMatched"), "errors"),
                     !.raised = Append(@, <<pipeline.id, event.id.v, "transform">>)]
    ELSE LET out == applyTransform(pipeline.transform, event, pipeline.id)
             pushed == [acc EXCEPT !.stats = Bump(@, "eventsMatched"),
                                   !.results = Append(@, out)]
         IN  IF onEvent = "null" THEN pushed
             ELSE [pushed EXCEPT
                     !.handled = Append(@, <<pipeline.id, event.id.v>>),
                     !.raised = IF handlerRejects(pipeline)
                                THEN Append(@, <<pipeline.id, event.id.v, "handler">>)
                                ELSE @]

RECURSIVE processLoop(_, _, _)
processLoop(acc, matching, event) ==
    IF matching = <<>> THEN acc
    ELSE processLoop(processPipeline(acc, Head(matching), event), Tail(matching), event)

\* processEvent(event)
processEvent(acc, event) ==
    processLoop([acc EXCEPT !.stats = Bump(@, "eventsProcessed")],
                getPipelinesForProgram(event.program.v), event)

\* processEvents(events)
RECURSIVE processEvents(_, _)
processEvents(acc, events) ==
    IF events = <<>> THEN acc
    ELSE processEvents(processEvent(acc, Head(events)), Tail(events))

----------------------------------------------------------------------------
(* Inputs of the pipeline engine *)

\* Bounds: events processed in one run, and the longest batch.
MaxProcessed == 2
MaxBatch == 2

PipelineIds == {"p1", "p2"}
ProgramIds  == {"PUMP_BONDING_CURVE", "PUMPSWAP"}

RawTransform == [mode |-> "template", template |-> "raw"]
WsDestinations == [websocket |-> [enabled |-> TRUE]]

\* The pipeline objects handed to upsertPipeline.
PipelineVersions(id) ==
    LET base(programs, status) ==
            [id |-> id, programs |-> programs, status |-> status,
             filter |-> EmptyObject, transform |-> RawTransform,
             destinations |-> WsDestinations]
        both == base(<<"PUMP_BONDING_CURVE", "PUMPSWAP">>, "active")
    IN  { base(<<>>, "active"),
          base(<<"PUMP_BONDING_CURVE">>, "active"),
          base(<<"PUMP_BONDING_CURVE">>, "paused"),
          base(<<"PUMP_BONDING_CURVE">>, "error"),
          both,
          base(<<"PUMPSWAP", "PUMPSWAP">>, "paused"),
          [both EXCEPT !.filter = [instructions |-> <<"TradeEvent">>]],
          [both EXCEPT !.filter = MalformedFilter],
          Without(both, {"transform"}),
          Without(both, {"destinations"}) }

EngineEvents == {EvTradeBuy, EvBuyByName}

NoCall == [events |-> <<>>, results |-> <<>>, handled |-> <<>>, raised |-> <<>>, errors0 |-> 0]

\* The engine after construction (part_008:15-30).
EngineIdle ==
    /\ pipelines = EmptyObject
    /\ programIndex = EmptyObject
    /\ onEvent = "null"
    /\ deliveryService = "null"
    /\ stats = [eventsProcessed |-> 0, eventsMatched |-> 0, eventsFiltered |-> 0, errors |-> 0]
    /\ lastCall = NoCall
    /\ lastOp = "init"

----------------------------------------------------------------------------
(* The pipeline engine as a state machine *)

\* engine.setEventHandler(async ...) at part_007:29
SetEventHandler ==
    /\ onEvent = "null"
    /\ onEvent' = "handler"
    /\ lastOp' = "setEventHandler"
    /\ lastCall' = NoCall
    /\ UNCHANGED <<pipelines, programIndex, deliveryService, stats>>
    /\ UNCHANGED notEngineVars

\* initDelivery() at part_007:15-26, started after the handler is registered
InitDelivery ==
    /\ onEvent = "handler"
    /\ deliveryService = "null"
    /\ deliveryService' = "loaded"
    /\ lastOp' = "initDelivery"
    /\ lastCall' = NoCall
    /\ UNCHANGED <<pipelines, programIndex, onEvent, stats>>
    /\ UNCHANGED notEngineVars

UpsertPipeline(pipeline) ==
    /\ programIndex' =
          addToIndex(IF pipeline.id \in DOMAIN pipelines
                     THEN removeFromIndex(programIndex, pipelines, pipeline.id)
                     ELSE programIndex,
                     pipeline)
    /\ pipelines' = Merge(pipelines, [k \in {pipeline.id} |-> pipeline])
    /\ lastOp' = IF pipeline.id \in DOMAIN pipelines THEN "replace" ELSE "insert"
    /\ lastCall' = NoCall
    /\ UNCHANGED <<onEvent, deliveryService, stats>>
    /\ UNCHANGED notEngineVars

RemovePipeline(id) ==
    /\ IF id \notin DOMAIN pipelines
       THEN UNCHANGED <<pipelines, programIndex>>
       ELSE /\ programIndex' = removeFromIndex(programIndex, pipelines, id)
            /\ pipelines' = Without(pipelines, {id})
    /\ lastOp' = IF id \in DOMAIN pipelines THEN "remove" ELSE "removeMissing"
    /\ lastCall' = NoCall
    /\ UNCHANGED <<onEvent, deliveryService, stats>>
    /\ UNCHANGED notEngineVars

ProcessEvents(events) ==
    /\ stats.eventsProcessed + Len(events) <= MaxProcessed
    /\ LET done == processEvents([stats |-> stats, results |-> <<>>, handled |-> <<>>,
                                  raised |-> <<>>], events)
       IN  /\ stats' = done.stats
           /\ lastCall' = [events |-> events, results |-> done.results,
                           handled |-> done.handled, raised |-> done.raised,
                           errors0 |-> stats.errors]
    /\ lastOp' = "processEvents"
    /\ UNCHANGED <<pipelines, programIndex, onEvent, deliveryService>>
    /\ UNCHANGED notEngineVars

NextEngine ==
    \/ SetEventHandler
    \/ InitDelivery
    \/ \E id \in PipelineIds : \E pipeline \in PipelineVersions(id) : UpsertPipeline(pipeline)
    \/ \E id \in PipelineIds : RemovePipeline(id)
    \/ \E events \in SeqsUpTo(EngineEvents, MaxBatch) : ProcessEvents(events)

\* No webhook delivery is under way.
WebhookIdle ==
    /\ whDestination = [enabled |-> FALSE, url |-> ""]
    /\ whPc = "call"
    /\ attempt = 0
    /\ whRequests = <<>>
    /\ whSleeps = <<>>
    /\ whResult = "pending"
    /\ whData = EmptyObject
    /\ whSent = <<>>

DestinationNames == {"discord", "telegram", "webhook", "websocket"}

ZeroDeliveryStats ==
    [delivered |-> 0, failed |-> 0,
     byDestination |-> [d \in DestinationNames |-> [success |-> 0, failed |-> 0]]]

\* No deliverEvent call is under way.
DeliverIdle ==
    /\ dlDestinations = EmptyObject
    /\ dlPc = "call"
    /\ promises = {}
    /\ results = <<>>
    /\ dlOutcome = EmptyObject
    /\ dlReturned = <<>>
    /\ deliveryStats = ZeroDeliveryStats

Clients == {"c1", "c2", "c3"}

\* `pipeline:${pipelineId}`
RoomName(pipelineId) == "pipeline:" \o pipelineId

RoomNames == { RoomName(id) : id \in PipelineIds }

NoSend == [called |-> FALSE]

\* The module as loaded: no server, nobody connected (lines 10-15).
WsIdle ==
    /\ io = "null"
    /\ httpServer = "null"
    /\ publishedCount = 0
    /\ connectedClients = 0
    /\ sockets = {}
    /\ rooms = [r \in RoomNames |-> {}]
    /\ received = [c \in Clients |-> <<>>]
    /\ wsLast = NoSend
    /\ busCalls = "none"

\* The registered decoders, in registration order (PARSERS).
PARSERS ==
    <<"PUMP_BONDING_CURVE", "METEORA_DBC", "PUMPSWAP",
      "METEORA_DAMM_V2", "METEORA_DAMM_V1", "METEORA_DLMM">>

NotParsed == [status |-> "none", events |-> <<>>, invoked |-> <<>>, thrown |-> <<>>, at |-> 0]

NoUpdate ==
    [hasTransaction |-> FALSE, signature |-> "sig1", accountKeys |-> <<>>,
     txBlockTime |-> 0, metaBlockTime |-> 0,
     emitted |-> [d \in Range(PARSERS) |-> 0], raises |-> {}, dbcTxType |-> "null"]

\* No envelope has been handed to the parser router.
ParseIdle ==
    /\ update = NoUpdate
    /\ now = 10
    /\ parsed = NotParsed
    /\ parsedBefore = NotParsed

\* No transform is being applied.
TransformIdle ==
    /\ tTransform = RawTransform
    /\ tEvent = EvCreate
    /\ tPipelineId = "p1"
    /\ tOutput = [status |-> "pending"]

FilterIdle ==
    /\ fFilter = EmptyObject
    /\ fEvent = EvCreate
    /\ fResult = "pending"

\* applyPipe has not been called.
PipeIdle == pipeCalls = <<>>

\* No inner-instruction loop is running.
CpiIdle ==
    /\ cpiDecoder = "METEORA_DBC"
    /\ cpiInner = <<>>
    /\ cpiEvents = [status |-> "pending"]

\* The Meteora DBC decoder is not running.
DbcIdle ==
    /\ dbcTx = [outer |-> <<>>, inner |-> <<>>]
    /\ dbcParsed = [status |-> "pending"]

\* No token identity is being inferred.
MintIdle ==
    /\ mintDecoder = "METEORA_DBC"
    /\ postTokenBalances = <<>>
    /\ mintData = [status |-> "pending"]

\* The loader's callers, and a caller with no syncPipelines run under way.
Callers == {"init", "timer", "refresh"}
NoRun == [pc |-> "idle"]
NoSync == [caller |-> "none"]

\* The pipeline loader module after it was loaded (pipeline-loader.ts:9-19).
LoaderIdle ==
    /\ pipelineEngine = "null"
    /\ supabase = "client"
    /\ pollTimer = "null"
    /\ loadedPipelineIds = {}
    /\ store = {}
    /\ runs = [c \in Callers |-> NoRun]
    /\ ldStarted = 0
    /\ ldLast = NoSync

ExtraIdle == PipeIdle /\ CpiIdle /\ DbcIdle /\ MintIdle /\ LoaderIdle

CoreIdle ==
    /\ EngineIdle
    /\ WebhookIdle
    /\ DeliverIdle
    /\ WsIdle
    /\ ParseIdle
    /\ TransformIdle
    /\ FilterIdle

InitEngine ==
    /\ EngineIdle
    /\ ExtraIdle
    /\ WebhookIdle
    /\ DeliverIdle
    /\ WsIdle
    /\ ParseIdle
    /\ TransformIdle
    /\ FilterIdle

Spec == InitEngine /\ [][NextEngine]_vars

----------------------------------------------------------------------------
(* Properties of the pipeline engine *)

\* The pipelines that are current, registered for program g and active.
CurrentActiveFor(g) ==
    { pipelines[id] : id \in { i \in DOMAIN pipelines :
                                  /\ g \in Range(pipelines[i].programs)
                                  /\ pipelines[i].status = "active" } }

\* C1: after any upserts and removes, getPipelinesForProgram(g) returns exactly
\* the current active pipelines that list g, each once.
C1_PipelinesForProgramExact ==
    \A g \in ProgramIds :
        LET got == getPipelinesForProgram(g)
        IN  /\ Range(got) = CurrentActiveFor(g)
            /\ Cardinality(Range(got)) = Len(got)

\* C1 witness: a pipeline was just replaced by a version that lists fewer
\* programs, while the other pipeline is still returned.
C1_Witness ==
    /\ lastOp = "replace"
    /\ Cardinality(DOMAIN pipelines) = 2
    /\ \E g \in ProgramIds : Len(getPipelinesForProgram(g)) = 1
    /\ \E g \in ProgramIds : g \notin DOMAIN programIndex
    /\ \E id \in DOMAIN pipelines : pipelines[id].programs = <<"PUMP_BONDING_CURVE">>

\* The pipeline ids named by the outputs and by the handler calls of the last call.
OutputIds == { lastCall.results[i].pipelineId : i \in DOMAIN lastCall.results }
HandledIds == { lastCall.handled[i][1] : i \in DOMAIN lastCall.handled }

\* C5: a processEvents call yields outputs and handler calls only for
\* pipelines whose current status is active.
C5_OnlyActiveProcessed ==
    lastOp = "processEvents" =>
        \A id \in OutputIds \cup HandledIds :
            id \in DOMAIN pipelines /\ pipelines[id].status = "active"

\* C5 witness: an event was processed for a program that a paused pipeline is
\* indexed under, and only the other pipeline produced an output.
C5_Witness ==
    /\ lastOp = "processEvents"
    /\ onEvent = "handler"
    /\ lastCall.results # <<>>
    /\ \E id \in DOMAIN pipelines :
          /\ pipelines[id].status = "paused"
          /\ \E i \in DOMAIN lastCall.events :
                /\ lastCall.events[i].program.v \in DOMAIN programIndex
                /\ id \in Range(programIndex[lastCall.events[i].program.v])
          /\ id \notin OutputIds \cup HandledIds

\* Whether pipeline q yields an output for event e, whatever the others do.
YieldsOutput(q, e) ==
    /\ ~evaluateFilterThrows(q.filter, e)
    /\ evaluateFilter(q.filter, e)
    /\ ~applyTransformThrows(q)

\* The outputs of the last call are those of every active matching pipeline
\* that does not fail, for every event of the batch.
OutputsIsolated ==
    lastOp = "processEvents" =>
        { <<lastCall.results[i].pipelineId, lastCall.results[i].id>> : i \in DOMAIN lastCall.results }
          = UNION { { <<q.id, lastCall.events[i].id.v>> :
                        q \in { r \in Range(getPipelinesForProgram(lastCall.events[i].program.v)) :
                                  YieldsOutput(r, lastCall.events[i]) } }
                    : i \in DOMAIN lastCall.events }

\* C6: every error raised for a pipeline by the filter, the transform or the
\* handler during a call is counted in stats.errors, and the other pipelines
\* and the later events of the batch are processed as if it had not occurred.
C6_ErrorsCountedAndIsolated ==
    lastOp = "processEvents" =>
        /\ stats.errors - lastCall.errors0 = Len(lastCall.raised)
        /\ OutputsIsolated

\* Holds of the code: errors raised by the filter or the transform are counted.
C6_SynchronousErrorsCounted ==
    lastOp = "processEvents" =>
        /\ stats.errors - lastCall.errors0
             = Len(SelectSeq(lastCall.raised, LAMBDA r : r[3] \in {"filter", "transform"}))
        /\ OutputsIsolated

\* Whether a pipeline has a destination that is enabled.
HasEnabledDestination(pipeline) ==
    /\ "destinations" \in DOMAIN pipeline
    /\ \E d \in DOMAIN pipeline.destinations : pipeline.destinations[d].enabled

\* C11: every pipeline held by the engine has a non-empty programs list and
\* at least one enabled destination (an upsert without them is rejected).
C11_StoredPipelinesValid ==
    \A id \in DOMAIN pipelines :
        /\ pipelines[id].programs # <<>>
        /\ HasEnabledDestination(pipelines[id])

\* The programs a pipeline id is indexed under.
IndexedUnder(id) == { g \in DOMAIN programIndex : id \in Range(programIndex[g]) }

\* C18: in every state a reader can run in, each stored pipeline is indexed
\* under exactly the programs of its stored version, nothing is indexed that
\* is not stored, and a reader gets stored versions whole.
C18_ConsistentSnapshot ==
    /\ \A id \in DOMAIN pipelines : IndexedUnder(id) = Range(pipelines[id].programs)
    /\ \A g \in DOMAIN programIndex : Range(programIndex[g]) \subseteq DOMAIN pipelines
    /\ \A g \in ProgramIds :
          \A i \in DOMAIN getPipelinesForProgram(g) :
              LET p == getPipelinesForProgram(g)[i]
              IN  p.id \in DOMAIN pipelines /\ p = pipelines[p.id]
    /\ lastOp = "processEvents" => OutputIds \subseteq DOMAIN pipelines

\* C18 witness: right after a replacing upsert, one pipeline is indexed
\* under PUMPSWAP only (listed twice in its programs) and a reader of the
\* other program gets the other pipeline.
C18_Witness ==
    /\ lastOp = "replace"
    /\ "p1" \in DOMAIN pipelines
    /\ pipelines["p1"].programs = <<"PUMPSWAP", "PUMPSWAP">>
    /\ IndexedUnder("p1") = {"PUMPSWAP"}
    /\ Len(getPipelinesForProgram("PUMP_BONDING_CURVE")) = 1
    /\ getPipelinesForProgram("PUMP_BONDING_CURVE")[1].id = "p2"

\* C23: the index has no stale entry and no empty bucket: id is in the
\* bucket of g exactly when a pipeline with that id is stored and lists g,
\* each id at most once, and no program maps to an empty set.
C23_NoStaleNoEmptyBucket ==
    /\ \A g \in DOMAIN programIndex :
          /\ programIndex[g] # <<>>
          /\ Cardinality(Range(programIndex[g])) = Len(programIndex[g])
    /\ \A g \in ProgramIds, id \in PipelineIds :
          (g \in DOMAIN programIndex /\ id \in Range(programIndex[g]))
          <=> (id \in DOMAIN pipelines /\ g \in Range(pipelines[id].programs))
    /\ DOMAIN programIndex \subseteq ProgramIds

\* C23 witness: a stored pipeline was just removed, and the index holds the
\* one bucket of the pipeline that remains.
C23_Witness ==
    /\ lastOp = "remove"
    /\ DOMAIN pipelines = {"p2"}
    /\ pipelines["p2"].programs = <<"PUMP_BONDING_CURVE">>
    /\ DOMAIN programIndex = {"PUMP_BONDING_CURVE"}
    /\ programIndex["PUMP_BONDING_CURVE"] = <<"p2">>

----------------------------------------------------------------------------
(* Webhook destination: apps/delivery/src/webhook.ts *)

\* Bound: the largest retry.attempts of the generated destinations.
MaxAttempts == 4

DefaultAttempts == 3

RECURSIVE Pow2(_)
Pow2(n) == IF n <= 0 THEN 1 ELSE 2 * Pow2(n - 1)

\* Mutant of calculateBackoff: the exponent is the attempt number.
calculateBackoffOffByOne(n, type) ==
    IF type = "linear" THEN n * 1000 ELSE Pow2(n) * 1000

calculateBackoff(n, type) ==
    IF type = "linear" THEN n * 1000 ELSE Pow2(n - 1) * 1000

\* destination.retry?.attempts ?? 3 and destination.retry?.backoff ?? 'exponential'
maxAttempts(destination) ==
    IF "retry" \in DOMAIN destination /\ "attempts" \in DOMAIN destination.retry
    THEN destination.retry.attempts ELSE DefaultAttempts

backoffType(destination) ==
    IF "retry" \in DOMAIN destination /\ "backoff" \in DOMAIN destination.retry
    THEN destination.retry.backoff ELSE "exponential"

\* What one fetch gives: a response with a status, or a transport error.
HttpResponse(status) == [kind |-> "response", status |-> status]
TransportError == [kind |-> "error"]

\* response.ok
IsOk(r) == r.kind = "response" /\ r.status >= 200 /\ r.status <= 299

\* Mutant of IsClientError: only 400 itself ends the delivery.
IsClientErrorOnly400(r) == r.kind = "response" /\ r.status = 400

\* response.status >= 400 && response.status < 500
IsClientError(r) == r.kind = "response" /\ r.status >= 400 /\ r.status < 500

FetchOutcomes ==
    { HttpResponse(st) : st \in {200, 299, 304, 400, 499, 500, 599} } \cup {TransportError}

\* JSON.stringify(value): the serialized text, kept as the value it encodes.
JSONstringify(value) == [json |-> value]

\* The metadata deliverEvent hands to sendToWebhook (index.ts:98-102).
WebhookMetadata == [pipelineId |-> "p1", eventId |-> "sig1:pump:0", timestamp |-> 5000]

\* payload (lines 19-22)
webhookPayload(data, metadata) == JSONstringify(Merge(data, [_meta |-> metadata]))

\* A header value that is plain text.
HeaderText(text) == [text |-> text]

\* crypto.createHmac('sha256', secret).update(payload).digest('hex')
HmacSha256Hex(secret, payload) == [hmac |-> "sha256", key |-> secret, msg |-> payload, enc |-> "hex"]

\* Mutant of signPayload: the HMAC is keyed with the empty string.
signPayloadUnkeyed(payload, secret) ==
    [prefix |-> "sha256=", digest |-> HmacSha256Hex("", payload)]

\* signPayload (lines 83-87)
signPayload(payload, secret) ==
    [prefix |-> "sha256=", digest |-> HmacSha256Hex(secret, payload)]

\* destination.signing?.secret is truthy
hasSigningSecret(destination) ==
    /\ "signing" \in DOMAIN destination
    /\ "secret" \in DOMAIN destination.signing
    /\ destination.signing.secret # ""

\* destination.signing.header || 'X-Tada-Signature'
signatureHeaderName(destination) ==
    IF "header" \in DOMAIN destination.signing /\ destination.signing.header # ""
    THEN destination.signing.header ELSE "X-Tada-Signature"

\* headers (lines 24-38)
webhookHeaders(destination, payload, metadata) ==
    LET base ==
            Merge("Content-Type" :> HeaderText("application/json")
                    @@ "User-Agent" :> HeaderText("Tada/1.0")
                    @@ "X-Tada-Pipeline-Id" :> HeaderText(metadata.pipelineId)
                    @@ "X-Tada-Event-Id" :> HeaderText(metadata.eventId)
                    @@ "X-Tada-Timestamp" :> HeaderText("5000"),
                  IF "headers" \in DOMAIN destination THEN destination.headers ELSE EmptyObject)
    IN  IF hasSigningSecret(destination)
        THEN Merge(base, signatureHeaderName(destination)
                            :> signPayload(payload, destination.signing.secret))
        ELSE base

\* The signing and headers settings of a destination.
SigningSettings ==
    { EmptyObject,
      [signing |-> [secret |-> "k1"]],
      [signing |-> [secret |-> "k1", header |-> "X-Hub-Signature"]],
      [signing |-> [secret |-> ""]],
      [signing |-> [secret |-> "k1"],
       headers |-> ("X-Tada-Signature" :> HeaderText("forged") @@ "X-Api-Key" :> HeaderText("a"))],
      [headers |-> ("X-Tada-Signature" :> HeaderText("forged"))] }

WebhookData == { EmptyObject, [mint |-> JsStr("m1"), is_buy |-> JsBool(TRUE)] }

WebhookDestinations ==
    { Merge(Merge(base, retry), signing) :
        base \in { [enabled |-> e, url |-> u] : e \in BOOLEAN, u \in {"", "https://hook.example/u"} },
        signing \in SigningSettings,
        retry \in { EmptyObject, [retry |-> EmptyObject] }
                    \cup { [retry |-> [attempts |-> n]] : n \in 0..MaxAttempts }
                    \cup { [retry |-> [backoff |-> b]] : b \in {"linear", "exponential"} }
                    \cup { [retry |-> [attempts |-> n, backoff |-> b]] :
                             n \in 0..MaxAttempts, b \in {"linear", "exponential"} } }

InitWebhook ==
    /\ whDestination \in WebhookDestinations
    /\ whPc = "call"
    /\ attempt = 0
    /\ whRequests = <<>>
    /\ whSleeps = <<>>
    /\ whResult = "pending"
    /\ whData \in WebhookData
    /\ whSent = <<>>
    /\ EngineIdle
    /\ ExtraIdle
    /\ DeliverIdle
    /\ WsIdle
    /\ ParseIdle
    /\ TransformIdle
    /\ FilterIdle

\* sendToWebhook up to the first fetch (lines 15-44). The payload is built
\* with JSON.stringify outside the try block: event data that cannot be
\* serialized makes the call reject before any request.
WebhookCall(serializable) ==
    /\ whPc = "call"
    /\ IF ~whDestination.enabled \/ whDestination.url = ""
       THEN /\ whPc' = "done"
            /\ whResult' = "false"
            /\ UNCHANGED attempt
       ELSE IF ~serializable
       THEN /\ whPc' = "done"
            /\ whResult' = "rejected"
            /\ UNCHANGED attempt
       ELSE /\ attempt' = 1
            /\ IF 1 <= maxAttempts(whDestination)
               THEN whPc' = "fetch" /\ UNCHANGED whResult
               ELSE whPc' = "done" /\ whResult' = "false"
    /\ UNCHANGED <<whDestination, whRequests, whSleeps, whData, whSent>>
    /\ UNCHANGED notWebhookVars

\* One await fetch(...) and what follows it up to the next await (lines 45-70).
WebhookFetch(r) ==
    /\ whPc = "fetch"
    /\ whRequests' = Append(whRequests, r)
    /\ LET payload == webhookPayload(whData, WebhookMetadata)
       IN  whSent' = Append(whSent,
                            [headers |-> webhookHeaders(whDestination, payload, WebhookMetadata),
                             body |-> payload])
    /\ IF IsOk(r)
       THEN whPc' = "done" /\ whResult' = "true" /\ UNCHANGED attempt
       ELSE IF IsClientError(r)
       THEN whPc' = "done" /\ whResult' = "false" /\ UNCHANGED attempt
       ELSE IF attempt < maxAttempts(whDestination)
       THEN whPc' = "sleep" /\ UNCHANGED <<whResult, attempt>>
       ELSE whPc' = "done" /\ whResult' = "false" /\ attempt' = attempt + 1
    /\ UNCHANGED <<whDestination, whSleeps, whData>>
    /\ UNCHANGED notWebhookVars

\* await sleep(calculateBackoff(attempt, backoffType)), then attempt++ (lines 71-72, 44).
WebhookSleep ==
    /\ whPc = "sleep"
    /\ whSleeps' = Append(whSleeps, calculateBackoff(attempt, backoffType(whDestination)))
    /\ attempt' = attempt + 1
    /\ whPc' = "fetch"
    /\ UNCHANGED <<whDestination, whRequests, whResult, whData, whSent>>
    /\ UNCHANGED notWebhookVars

NextWebhook ==
    \/ \E serializable \in BOOLEAN : WebhookCall(serializable)
    \/ \E r \in FetchOutcomes : WebhookFetch(r)
    \/ WebhookSleep

SpecWebhook == InitWebhook /\ [][NextWebhook]_vars

\* The event loop runs a started call and fires a due timer; nothing in
\* sendToWebhook bounds the time a fetch takes to settle (no AbortSignal, no
\* timeout), so WebhookFetch has no fairness condition.
SpecWebhookFair ==
    /\ SpecWebhook
    /\ WF_vars(\E serializable \in BOOLEAN : WebhookCall(serializable))
    /\ WF_vars(WebhookSleep)

----------------------------------------------------------------------------
(* Properties of the webhook destination *)

\* The claim's own reading of an outcome, by status range.
Is2xx(r) == r.kind = "response" /\ r.status \in 200..299
Is4xx(r) == r.kind = "response" /\ r.status \in 400..499
Retryable(r) == ~Is2xx(r) /\ ~Is4xx(r)

LastRequest == whRequests[Len(whRequests)]

\* C2: at most N requests; the first 2xx ends the delivery with success, the
\* first 4xx ends it at once with failure, anything else is retried, and N
\* failed attempts end it with failure.
C2_RetryBudget ==
    LET N == maxAttempts(whDestination)
    IN  /\ Len(whRequests) <= N
        /\ \A i \in 1..(Len(whRequests) - 1) : Retryable(whRequests[i])
        /\ (whRequests # <<>> /\ Is2xx(LastRequest)) => (whPc = "done" /\ whResult = "true")
        /\ (whRequests # <<>> /\ Is4xx(LastRequest)) =>
              /\ whPc = "done" /\ whResult = "false"
              /\ Len(whSleeps) = Len(whRequests) - 1
        /\ (whRequests # <<>> /\ Retryable(LastRequest) /\ Len(whRequests) < N) =>
              (whPc \in {"sleep", "fetch"} /\ whResult = "pending")
        /\ (N > 0 /\ Len(whRequests) = N /\ \A i \in 1..N : Retryable(whRequests[i])) =>
              (whPc = "done" /\ whResult = "false")
        /\ (N = 0 /\ whPc = "done") => whResult \in {"false", "rejected"}
        /\ whResult = "rejected" => whRequests = <<>>
        /\ whResult = "true" => (whRequests # <<>> /\ Is2xx(LastRequest))
        /\ whPc = "done" <=> whResult # "pending"

\* C2 witness: three attempts, two retried (a 5xx and a transport error), then a 4xx.
C2_Witness ==
    /\ whPc = "done"
    /\ whResult = "false"
    /\ maxAttempts(whDestination) = 4
    /\ Len(whRequests) = 3
    /\ whRequests[1] = HttpResponse(500)
    /\ whRequests[2] = TransportError
    /\ whRequests[3] = HttpResponse(499)

\* C3: the k-th sleep follows the k-th failed retryable attempt and lasts
\* k * 1000 ms (linear) or 2^(k-1) * 1000 ms (exponential); none follows the
\* last attempt or a 2xx / 4xx response.
C3_BackoffSchedule ==
    /\ \A k \in DOMAIN whSleeps :
          /\ k < maxAttempts(whDestination)
          /\ Retryable(whRequests[k])
          /\ whSleeps[k] = IF backoffType(whDestination) = "linear"
                           THEN k * 1000 ELSE Pow2(k - 1) * 1000
    /\ Len(whSleeps) = CASE whPc = "fetch" -> Len(whRequests)
                         [] whPc = "sleep" -> Len(whRequests) - 1
                         [] whPc = "done" /\ whRequests # <<>> -> Len(whRequests) - 1
                         [] OTHER -> 0
    /\ ( /\ whPc = "done"
         /\ maxAttempts(whDestination) = 3
         /\ backoffType(whDestination) = "linear"
         /\ whRequests = <<HttpResponse(500), HttpResponse(500), HttpResponse(200)>> )
       => (whSleeps = <<1000, 2000>> /\ whResult = "true")

\* C3 witness: attempts = 3, linear, responses 500, 500, 200.
C3_Witness ==
    /\ whPc = "done"
    /\ "retry" \in DOMAIN whDestination
    /\ whDestination.retry = [attempts |-> 3, backoff |-> "linear"]
    /\ whRequests = <<HttpResponse(500), HttpResponse(500), HttpResponse(200)>>
    /\ whSleeps = <<1000, 2000>>
    /\ whResult = "true"

\* The signing secret that is configured, "" when there is none.
ConfiguredSecret ==
    IF "signing" \in DOMAIN whDestination /\ "secret" \in DOMAIN whDestination.signing
    THEN whDestination.signing.secret ELSE ""

\* The name the signature header is configured to have.
ConfiguredHeader ==
    IF "signing" \in DOMAIN whDestination /\ "header" \in DOMAIN whDestination.signing
    THEN whDestination.signing.header ELSE "X-Tada-Signature"

\* C22: every request carries the same serialized body; with a secret its
\* signature header is 'sha256=' + hex HMAC-SHA256 of that body under the
\* secret, and without a secret no header holds a signature.
C22_SignatureOverSentBody ==
    /\ Len(whSent) = Len(whRequests)
    /\ \A i \in DOMAIN whSent :
          /\ whSent[i] = whSent[1]
          /\ whSent[i].body = [json |-> Merge(whData, [_meta |-> WebhookMetadata])]
          /\ IF ConfiguredSecret # ""
             THEN /\ ConfiguredHeader \in DOMAIN whSent[i].headers
                  /\ whSent[i].headers[ConfiguredHeader] =
                        [prefix |-> "sha256=",
                         digest |-> [hmac |-> "sha256", key |-> ConfiguredSecret,
                                     msg |-> whSent[i].body, enc |-> "hex"]]
             ELSE \A h \in DOMAIN whSent[i].headers : "digest" \notin DOMAIN whSent[i].headers[h]

\* C22 witness: a signed delivery with a custom header name that was retried.
C22_Witness ==
    /\ Len(whSent) = 2
    /\ "signing" \in DOMAIN whDestination
    /\ whDestination.signing = [secret |-> "k1", header |-> "X-Hub-Signature"]
    /\ whData # EmptyObject
    /\ "X-Hub-Signature" \in DOMAIN whSent[2].headers
    /\ whResult = "true"

\* C16: every sendToWebhook call eventually returns a result, even when the
\* server never responds.
C16_SendToWebhookReturns == <>(whPc = "done")

----------------------------------------------------------------------------
(* Delivery service: apps/delivery/src/index.ts *)

\* What a send can settle to. sendToDiscord and sendToTelegram catch every
\* error and resolve to false; sendToWebhook and sendToWebSocket build their
\* payload outside any try block and can reject.
SendOutcomes(d) ==
    IF d \in {"discord", "telegram"} THEN {"true", "false"} ELSE {"true", "false", "reject"}

\* The guard at the head of each send (discord.ts:27, telegram.ts:13,
\* webhook.ts:15): a destination without its address resolves to false.
missingConfig(destinations, d) ==
    CASE d = "discord"  -> destinations[d].webhookUrl = ""
      [] d = "telegram" -> destinations[d].botToken = "" \/ destinations[d].chatId = ""
      [] d = "webhook"  -> destinations[d].url = ""
      [] OTHER          -> FALSE

\* What the send to a destination of this call can settle to.
sendOutcomes(destinations, d) ==
    IF missingConfig(destinations, d) THEN {"false"} ELSE SendOutcomes(d)

\* Mutant of Enabled: a destination that is present is sent to.
EnabledIfPresent(destinations, d) == d \in DOMAIN destinations

\* destinations.X?.enabled
Enabled(destinations, d) == d \in DOMAIN destinations /\ destinations[d].enabled

EnabledDestinations(destinations) == { d \in DestinationNames : Enabled(destinations, d) }

updateStats(st, d, success) ==
    IF success
    THEN [st EXCEPT !.delivered = @ + 1, !.byDestination[d].success = @ + 1]
    ELSE [st EXCEPT !.failed = @ + 1, !.byDestination[d].failed = @ + 1]

\* Mutant of settles: a rejected send is left without its .catch.
settlesNoCatch(outcome) == IF outcome = "reject" THEN "rejected" ELSE "fulfilled"

\* How the promise pushed for a destination settles: .then(...).catch(...)
\* turns the send's rejection into a fulfilled promise.
settles(outcome) == "fulfilled"

\* The DeliveryResult pushed by the .then or the .catch callback.
DeliveryResult(d, outcome) ==
    IF outcome = "reject"
    THEN [destination |-> d, success |-> FALSE, error |-> "Error"]
    ELSE [destination |-> d, success |-> (outcome = "true")]

\* The configurations of one destination: disabled, enabled, and enabled
\* without its address.
ConfigsOf(d) ==
    CASE d = "discord" ->
            { [enabled |-> e, webhookUrl |-> u] :
                e \in BOOLEAN, u \in {"", "https://discord.example/w"} } \ {[enabled |-> FALSE, webhookUrl |-> ""]}
      [] d = "telegram" ->
            { [enabled |-> FALSE, botToken |-> "t", chatId |-> "c"],
              [enabled |-> TRUE, botToken |-> "t", chatId |-> "c"],
              [enabled |-> TRUE, botToken |-> "t", chatId |-> ""] }
      [] d = "webhook" ->
            { [enabled |-> e, url |-> u] :
                e \in BOOLEAN, u \in {"", "https://hook.example/u"} } \ {[enabled |-> FALSE, url |-> ""]}
      [] d = "websocket" -> { [enabled |-> e] : e \in BOOLEAN }

DestinationConfigs ==
    UNION { { c \in [S -> UNION {ConfigsOf(d) : d \in S}] : \A d \in S : c[d] \in ConfigsOf(d) } :
            S \in SUBSET DestinationNames }

InitDeliver ==
    /\ dlDestinations \in DestinationConfigs
    /\ dlPc = "call"
    /\ promises = {}
    /\ results = <<>>
    /\ dlOutcome = EmptyObject
    /\ dlReturned = <<>>
    /\ deliveryStats = ZeroDeliveryStats
    /\ EngineIdle
    /\ ExtraIdle
    /\ WebhookIdle
    /\ WsIdle
    /\ ParseIdle
    /\ TransformIdle
    /\ FilterIdle

\* deliverEvent up to await Promise.all(promises): every enabled destination's
\* send is started (lines 60-130).
DeliverEvent ==
    /\ dlPc = "call"
    /\ promises' = EnabledDestinations(dlDestinations)
    /\ dlPc' = "awaiting"
    /\ UNCHANGED <<dlDestinations, results, dlOutcome, dlReturned, deliveryStats>>
    /\ UNCHANGED notDeliverVars

\* One send settles and its .then / .catch callback runs.
SendSettles(d, outcome) ==
    /\ dlPc \in {"awaiting", "rejected"}
    /\ d \in promises
    /\ outcome \in sendOutcomes(dlDestinations, d)
    /\ promises' = promises \ {d}
    /\ dlOutcome' = Merge(dlOutcome, [x \in {d} |-> outcome])
    /\ IF settles(outcome) = "rejected"
       THEN /\ dlPc' = "rejected"
            /\ UNCHANGED <<results, deliveryStats>>
       ELSE /\ results' = Append(results, DeliveryResult(d, outcome))
            /\ deliveryStats' = updateStats(deliveryStats, d, outcome = "true")
            /\ UNCHANGED dlPc
    /\ UNCHANGED <<dlDestinations, dlReturned>>
    /\ UNCHANGED notDeliverVars

\* Promise.all resolves once every pushed promise has; deliverEvent returns results.
DeliverReturn ==
    /\ dlPc = "awaiting"
    /\ promises = {}
    /\ dlReturned' = results
    /\ dlPc' = "returned"
    /\ UNCHANGED <<dlDestinations, promises, results, dlOutcome, deliveryStats>>
    /\ UNCHANGED notDeliverVars

NextDeliver ==
    \/ DeliverEvent
    \/ \E d \in DestinationNames : \E outcome \in SendOutcomes(d) : SendSettles(d, outcome)
    \/ DeliverReturn

SpecDeliver == InitDeliver /\ [][NextDeliver]_vars

----------------------------------------------------------------------------
(* Properties of the delivery service *)

ResultDestinations(rs) == { rs[i].destination : i \in DOMAIN rs }

\* C4: a failing send (false or rejection) gives success = false for that
\* destination only, every result depends on its own send alone, deliverEvent
\* never rejects, and it returns only when every enabled destination has its
\* result.
C4_FanOutIndependent ==
    /\ dlPc # "rejected"
    /\ \A i \in DOMAIN results :
          /\ results[i].destination \in DOMAIN dlOutcome
          /\ results[i].success = (dlOutcome[results[i].destination] = "true")
    /\ \A i, j \in DOMAIN results :
          results[i].destination = results[j].destination => i = j
    /\ ResultDestinations(results) = DOMAIN dlOutcome
    /\ dlPc = "returned" =>
          /\ dlReturned = results
          /\ ResultDestinations(dlReturned) = EnabledDestinations(dlDestinations)
          /\ promises = {}
    /\ dlPc # "returned" => dlReturned = <<>>

\* C4 witness: a returned call with a rejected send, a send that returned
\* false and a send that succeeded.
C4_Witness ==
    /\ dlPc = "returned"
    /\ Len(dlReturned) >= 3
    /\ \E a, b, c \in DOMAIN dlOutcome :
          /\ dlOutcome[a] = "reject"
          /\ dlOutcome[b] = "false"
          /\ dlOutcome[c] = "true"
          /\ \E i \in DOMAIN dlReturned :
                dlReturned[i].destination = c /\ dlReturned[i].success

\* The destinations whose enabled flag is true.
FlaggedDestinations ==
    { d \in DestinationNames : d \in DOMAIN dlDestinations /\ dlDestinations[d].enabled = TRUE }

\* The enabled destinations that lack their address.
Unconfigured ==
    { d \in FlaggedDestinations :
        \/ d = "discord" /\ dlDestinations[d].webhookUrl = ""
        \/ d = "telegram" /\ dlDestinations[d].chatId = ""
        \/ d = "webhook" /\ dlDestinations[d].url = "" }

\* C28: deliverEvent returns one result for each destination whose enabled
\* flag is true and none for any other, in whatever order the sends
\* complete; an enabled destination without its address gives one
\* success = false result.
C28_OneResultPerEnabledDestination ==
    dlPc = "returned" =>
        /\ Len(dlReturned) = Cardinality(FlaggedDestinations)
        /\ \A d \in DestinationNames :
              Cardinality({i \in DOMAIN dlReturned : dlReturned[i].destination = d}) =
                  IF d \in FlaggedDestinations THEN 1 ELSE 0
        /\ \A i \in DOMAIN dlReturned :
              dlReturned[i].destination \in Unconfigured => dlReturned[i].success = FALSE

\* C28 witness: the webhook is enabled without a url, discord is present
\* but disabled, telegram is absent, and the websocket send completed first.
C28_Witness ==
    /\ dlPc = "returned"
    /\ DOMAIN dlDestinations = {"discord", "webhook", "websocket"}
    /\ ~dlDestinations["discord"].enabled
    /\ dlDestinations["webhook"] = [enabled |-> TRUE, url |-> ""]
    /\ Len(dlReturned) = 2
    /\ dlReturned[1].destination = "websocket"
    /\ dlReturned[2] = [destination |-> "webhook", success |-> FALSE]

----------------------------------------------------------------------------
(* Realtime bus: apps/delivery/src/websocket.ts *)

\* Bound: the number of sendToWebSocket calls that publish.
MaxPublished == 2

\* Mutant of recipients: the message goes to every connected socket.
recipientsEverySocket(rms, socks, room) == socks

\* io.to(room): the sockets that are in the room.
recipients(rms, socks, room) == rms[room]

\* Mutant of canEmit: the server singleton is not looked at.
canEmitWithoutServer(enabled, server) == enabled

\* The two guards of sendToWebSocket (lines 68-75).
canEmit(enabled, server) == enabled /\ server # "null"

\* The payload of the 'event' message (lines 79-86).
EventMessage(pipelineId, n) == [name |-> "event", pipelineId |-> pipelineId, id |-> n]

InitWS ==
    /\ WsIdle
    /\ ParseIdle
    /\ TransformIdle
    /\ EngineIdle
    /\ ExtraIdle
    /\ WebhookIdle
    /\ DeliverIdle
    /\ FilterIdle

\* initWebSocket: a second call while the server exists does nothing.
InitWebSocket ==
    /\ IF io # "null"
       THEN UNCHANGED <<io, httpServer>>
       ELSE io' = "server" /\ httpServer' = "server"
    /\ busCalls' = "init"
    /\ wsLast' = NoSend
    /\ UNCHANGED <<publishedCount, connectedClients, sockets, rooms, received>>
    /\ UNCHANGED notWsVars

\* The 'connection' handler (lines 32-34).
Connect(c) ==
    /\ io # "null"
    /\ c \notin sockets
    /\ sockets' = sockets \cup {c}
    /\ connectedClients' = connectedClients + 1
    /\ wsLast' = NoSend
    /\ UNCHANGED <<busCalls, io, httpServer, publishedCount, rooms, received>>
    /\ UNCHANGED notWsVars

\* The 'subscribe' handler: socket.join(room).
Subscribe(c, pipelineId) ==
    /\ c \in sockets
    /\ rooms' = [rooms EXCEPT ![RoomName(pipelineId)] = @ \cup {c}]
    /\ wsLast' = NoSend
    /\ UNCHANGED <<busCalls, io, httpServer, publishedCount, connectedClients, sockets, received>>
    /\ UNCHANGED notWsVars

\* The 'unsubscribe' handler: socket.leave(room).
Unsubscribe(c, pipelineId) ==
    /\ c \in sockets
    /\ rooms' = [rooms EXCEPT ![RoomName(pipelineId)] = @ \ {c}]
    /\ wsLast' = NoSend
    /\ UNCHANGED <<busCalls, io, httpServer, publishedCount, connectedClients, sockets, received>>
    /\ UNCHANGED notWsVars

\* The 'disconnect' handler; Socket.IO takes a disconnected socket out of
\* every room it had joined.
Disconnect(c) ==
    /\ c \in sockets
    /\ sockets' = sockets \ {c}
    /\ rooms' = [r \in RoomNames |-> rooms[r] \ {c}]
    /\ connectedClients' = connectedClients - 1
    /\ wsLast' = NoSend
    /\ UNCHANGED <<busCalls, io, httpServer, publishedCount, received>>
    /\ UNCHANGED notWsVars

\* sendToWebSocket(destination, event, pipelineId) (lines 63-94).
SendToWebSocket(enabled, pipelineId) ==
    /\ publishedCount < MaxPublished
    /\ LET room == RoomName(pipelineId)
           emits == canEmit(enabled, io)
           to == IF emits THEN recipients(rooms, sockets, room) ELSE {}
       IN  /\ received' = [c \in Clients |->
                              IF c \in to
                              THEN Append(received[c], EventMessage(pipelineId, publishedCount))
                              ELSE received[c]]
           /\ publishedCount' = IF emits THEN publishedCount + 1 ELSE publishedCount
           /\ wsLast' = [called |-> TRUE, enabled |-> enabled, pipelineId |-> pipelineId,
                         initialized |-> io # "null", members |-> rooms[room],
                         before |-> received, returned |-> emits]
    /\ UNCHANGED <<busCalls, io, httpServer, connectedClients, sockets, rooms>>
    /\ UNCHANGED notWsVars

\* closeWebSocket: io.close() disconnects every client, whose 'disconnect'
\* handlers run; then both singletons are dropped.
CloseWebSocket ==
    /\ IF io # "null"
       THEN /\ io' = "null"
            /\ sockets' = {}
            /\ rooms' = [r \in RoomNames |-> {}]
            /\ connectedClients' = connectedClients - Cardinality(sockets)
       ELSE UNCHANGED <<io, sockets, rooms, connectedClients>>
    /\ httpServer' = "null"
    /\ busCalls' = "close"
    /\ wsLast' = NoSend
    /\ UNCHANGED <<publishedCount, received>>
    /\ UNCHANGED notWsVars

NextWS ==
    \/ InitWebSocket
    \/ \E c \in Clients : Connect(c)
    \/ \E c \in Clients : \E id \in PipelineIds : Subscribe(c, id)
    \/ \E c \in Clients : \E id \in PipelineIds : Unsubscribe(c, id)
    \/ \E c \in Clients : Disconnect(c)
    \/ \E enabled \in BOOLEAN : \E id \in PipelineIds : SendToWebSocket(enabled, id)
    \/ CloseWebSocket

SpecWS == InitWS /\ [][NextWS]_vars

----------------------------------------------------------------------------
(* Properties of the realtime bus *)

\* C7: a send for pipeline P through an enabled destination gives each member
\* of room pipeline:P exactly one 'event' message for P, and no send gives any
\* message to a client outside that room.
C7_RoomBroadcastExactlyOnce ==
    wsLast.called =>
        \A c \in Clients :
            /\ c \notin wsLast.members => received[c] = wsLast.before[c]
            /\ (c \in wsLast.members /\ wsLast.enabled) =>
                  /\ Len(received[c]) = Len(wsLast.before[c]) + 1
                  /\ SubSeq(received[c], 1, Len(wsLast.before[c])) = wsLast.before[c]
                  /\ received[c][Len(received[c])].name = "event"
                  /\ received[c][Len(received[c])].pipelineId = wsLast.pipelineId
            /\ Len(received[c]) <= Len(wsLast.before[c]) + 1

\* C7 witness: two subscribers in pipeline:p1, a third client connected and
\* subscribed to pipeline:p2 only, one output for p1 sent.
C7_Witness ==
    /\ wsLast.called
    /\ wsLast.enabled
    /\ wsLast.pipelineId = "p1"
    /\ wsLast.members = {"c1", "c2"}
    /\ rooms[RoomName("p2")] = {"c3"}
    /\ Len(received["c1"]) = 1
    /\ Len(received["c2"]) = 1
    /\ received["c3"] = <<>>

\* C17: a send through an enabled destination fails and emits nothing when
\* the bus is not initialized (never initialized, or closed since), and
\* succeeds only while it is initialized.
C17_UninitializedBusFails ==
    (wsLast.called /\ wsLast.enabled) =>
        /\ wsLast.returned <=> (busCalls = "init")
        /\ busCalls # "init" => received = wsLast.before

\* C17 witness: a send after closeWebSocket, on a bus that had subscribers
\* and had published before.
C17_Witness ==
    /\ wsLast.called
    /\ wsLast.enabled
    /\ busCalls = "close"
    /\ ~wsLast.returned
    /\ publishedCount = 1
    /\ \E c \in Clients : Len(received[c]) = 1

----------------------------------------------------------------------------
(* Parser router and decoders: apps/ingestion/src/parsers *)

\* Bounds: events one decoder emits for an envelope, account keys after the
\* signer, and wall-clock seconds that pass.
MaxEmitted == 2
MaxKeys == 3
MaxTicks == 1

DBC_ADDR     == "dbcij3LWUppWqq96dh6gJWwBifmcGfLSB5D4DuSMaqN"
PUMPSWAP_ADDR == "pAMMBay6oceH9fJKBRHGP5D4bD4sWpmSwMn52FMfXEA"
DAMM_V2_ADDR == "cpamdpZCGKUy5JxQXB4dcpGPiikHawvSWAd6mEn1sGG"
DAMM_V1_ADDR == "Eo7WjKq67rjJQSZxS6z3YkapzY3eMj6Xy8X5EQVn5UaB"
DLMM_ADDR    == "LBUZKhRxPF3XUpBCjp4YzTKgLccjZhTSDM9YuVaPwxo"

\* parser.programAddress
programAddress(parser) ==
    CASE parser = "PUMP_BONDING_CURVE" -> PUMP_ADDR
      [] parser = "METEORA_DBC"        -> DBC_ADDR
      [] parser = "PUMPSWAP"           -> PUMPSWAP_ADDR
      [] parser = "METEORA_DAMM_V2"    -> DAMM_V2_ADDR
      [] parser = "METEORA_DAMM_V1"    -> DAMM_V1_ADDR
      [] parser = "METEORA_DLMM"       -> DLMM_ADDR

\* PARSER_MAP: program address -> parser
PARSER_MAP == [a \in { programAddress(d) : d \in Range(PARSERS) } |->
                 CHOOSE d \in Range(PARSERS) : programAddress(d) = a]

Includes(seq, x) == \E i \in DOMAIN seq : seq[i] = x

\* Mutant of EventId: the id leaves the program address out.
EventIdWithoutAddress(signature, address, n) ==
    signature \o ":" \o ToString(n)

\* `${signature}:${PROGRAM_ADDRESS}:${eventIndex}`
EventId(signature, address, n) ==
    signature \o ":" \o address \o ":" \o ToString(n)

\* Number(tx.blockTime || meta.blockTime || Math.floor(Date.now() / 1000))
BlockTime(upd, clock) ==
    IF upd.txBlockTime # 0 THEN upd.txBlockTime
    ELSE IF upd.metaBlockTime # 0 THEN upd.metaBlockTime
    ELSE clock

\* detectEventSource(accountKeys, instructions)
detectEventSource(accountKeys) ==
    IF \E i \in DOMAIN accountKeys : accountKeys[i] \in {WALLET_A, WALLET_B}
    THEN LET i == CHOOSE j \in DOMAIN accountKeys :
                    /\ accountKeys[j] \in {WALLET_A, WALLET_B}
                    /\ \A k \in 1..(j - 1) : accountKeys[k] \notin {WALLET_A, WALLET_B}
         IN  [type |-> IF accountKeys[i] = WALLET_A THEN "jupiter" ELSE "raydium",
              outerProgram |-> accountKeys[i]]
    ELSE [type |-> "direct"]

\* The name of the n-th event a decoder finds in an envelope.
EventName(parser, n) ==
    IF parser = "METEORA_DBC" THEN "EvtSwap2"
    ELSE IF parser = "PUMP_BONDING_CURVE" /\ n = 0 THEN "TradeEvent"
    ELSE IF parser = "PUMP_BONDING_CURVE" THEN "CompleteEvent"
    ELSE "SwapEvent"

\* One DecodedEvent as the decoders build it.
DecodedEvent(parser, upd, n, name, clock) ==
    [id             |-> EventId(upd.signature, programAddress(parser), n),
     program        |-> parser,
     programAddress |-> programAddress(parser),
     name           |-> name,
     signature      |-> upd.signature,
     blockTime      |-> BlockTime(upd, clock),
     signer         |-> upd.accountKeys[1],
     source         |-> detectEventSource(upd.accountKeys),
     index          |-> n]

\* parser.parse(update) raises (outside the decoder's own try blocks).
parseThrows(parser, upd) ==
    /\ Includes(upd.accountKeys, programAddress(parser))
    /\ parser \in upd.raises

\* parser.parse(update): the events in emission order, numbered from 0; the
\* Meteora DBC decoder adds one synthesized event when it found none and
\* recognised a pool instruction.
parse(parser, upd, clock) ==
    IF ~Includes(upd.accountKeys, programAddress(parser)) THEN <<>>
    ELSE LET found == [i \in 1..upd.emitted[parser] |->
                          DecodedEvent(parser, upd, i - 1, EventName(parser, i - 1), clock)]
         IN  IF parser = "METEORA_DBC" /\ found = <<>> /\ upd.dbcTxType # "null"
             THEN <<DecodedEvent(parser, upd, 0, upd.dbcTxType, clock)>>
             ELSE found

\* The loop of lines 48-54: a parser per account key, first appearance first.
RECURSIVE involvedParsers(_, _)
involvedParsers(acc, accountKeys) ==
    IF accountKeys = <<>> THEN acc
    ELSE LET accountKey == Head(accountKeys)
             next == IF accountKey \in DOMAIN PARSER_MAP /\ ~Includes(acc, PARSER_MAP[accountKey])
                     THEN Append(acc, PARSER_MAP[accountKey])
                     ELSE acc
         IN  involvedParsers(next, Tail(accountKeys))

\* Mutant of invokeParser: a decoder's error is not caught.
invokeParserNoCatch(acc, parser, upd, clock) ==
    IF acc.status = "raised" THEN acc
    ELSE IF parseThrows(parser, upd)
    THEN [acc EXCEPT !.status = "raised",
                     !.invoked = Append(@, parser),
                     !.thrown = Append(@, parser)]
    ELSE [acc EXCEPT !.invoked = Append(@, parser),
                     !.events = @ \o parse(parser, upd, clock)]

\* One iteration of the loop of lines 61-68: try { parse } catch { log }.
invokeParser(acc, parser, upd, clock) ==
    IF acc.status = "raised" THEN acc
    ELSE IF parseThrows(parser, upd)
    THEN [acc EXCEPT !.invoked = Append(@, parser),
                     !.thrown = Append(@, parser)]
    ELSE [acc EXCEPT !.invoked = Append(@, parser),
                     !.events = @ \o parse(parser, upd, clock)]

RECURSIVE parseAll(_, _, _, _)
parseAll(acc, parsers, upd, clock) ==
    IF parsers = <<>> THEN acc
    ELSE parseAll(invokeParser(acc, Head(parsers), upd, clock), Tail(parsers), upd, clock)

\* parseTransaction(update)
parseTransaction(upd, clock) ==
    LET start == [status |-> "returned", events |-> <<>>, invoked |-> <<>>, thrown |-> <<>>,
                  at |-> clock]
    IN  IF ~upd.hasTransaction THEN start
        ELSE parseAll(start, involvedParsers(<<>>, upd.accountKeys), upd, clock)

\* The envelopes handed to the router.
SIGNER == "7xKXtg2CW87d97TXJSDpbD5jBkheTqA83TZRuJosgAsU"

KeyPool == {PUMP_ADDR, DBC_ADDR, DAMM_V2_ADDR, WALLET_A}

Candidates == {"PUMP_BONDING_CURVE", "METEORA_DBC", "METEORA_DAMM_V2"}

MkUpdate(keys, txTime, metaTime, emitted, raises, txType) ==
    LET involved == { d \in Candidates : Includes(keys, programAddress(d)) }
    IN  [hasTransaction |-> TRUE,
         signature      |-> "sig1",
         accountKeys    |-> <<SIGNER>> \o keys,
         txBlockTime    |-> txTime,
         metaBlockTime  |-> metaTime,
         emitted        |-> [d \in Range(PARSERS) |->
                               IF d \in involved /\ d \notin raises THEN emitted[d] ELSE 0],
         raises         |-> raises \cap involved,
         dbcTxType      |-> IF "METEORA_DBC" \in involved THEN txType ELSE "null"]

Envelopes ==
    { MkUpdate(keys, txTime, metaTime, emitted, raises, txType) :
        keys \in SeqsUpTo(KeyPool, MaxKeys), txTime \in {0, 5}, metaTime \in {0, 7},
        emitted \in [Candidates -> 0..MaxEmitted], raises \in SUBSET Candidates,
        txType \in {"null", "EvtInitializePool"} }
    \cup {NoUpdate}

InitParse ==
    /\ update \in Envelopes
    /\ now = 10
    /\ parsed = NotParsed
    /\ parsedBefore = NotParsed
    /\ EngineIdle
    /\ ExtraIdle
    /\ WebhookIdle
    /\ DeliverIdle
    /\ WsIdle
    /\ TransformIdle
    /\ FilterIdle

\* One call of parseTransaction(update) (lines 36-71).
ParseTransaction ==
    /\ parsed' = parseTransaction(update, now)
    /\ parsedBefore' = parsed
    /\ UNCHANGED <<update, now>>
    /\ UNCHANGED notParseVars

\* A second of wall-clock time passes.
Tick ==
    /\ now < 10 + MaxTicks
    /\ now' = now + 1
    /\ UNCHANGED <<update, parsed, parsedBefore>>
    /\ UNCHANGED notParseVars

NextParse ==
    \/ ParseTransaction
    \/ Tick

SpecParse == InitParse /\ [][NextParse]_vars

----------------------------------------------------------------------------
(* Properties of the parser router *)

\* The events of a list that one decoder contributed, in order.
EventsOf(parser, events) == SelectSeq(events, LAMBDA e : e.program = parser)

\* C12: when a decoder's parse raises, parseTransaction returns, that decoder
\* contributes nothing, and every other involved decoder contributes the
\* events it contributes for the same envelope when no decoder raises.
C12_DecoderIsolation ==
    parsed.status # "none" =>
        /\ parsed.status = "returned"
        /\ \A a \in Range(parsed.thrown) : EventsOf(a, parsed.events) = <<>>
        /\ \A b \in Range(PARSERS) \ Range(parsed.thrown) :
              EventsOf(b, parsed.events) =
                 EventsOf(b, parseTransaction([update EXCEPT !.raises = {}], parsed.at).events)
        /\ \A b \in Range(PARSERS) \ Range(parsed.thrown) :
              Includes(update.accountKeys, programAddress(b)) => Includes(parsed.invoked, b)

\* C12 witness: the first involved decoder raised and a later one contributed events.
C12_Witness ==
    /\ parsed.status = "returned"
    /\ Len(parsed.invoked) >= 2
    /\ parsed.thrown = <<parsed.invoked[1]>>
    /\ Len(EventsOf(parsed.invoked[2], parsed.events)) = 2

\* C13: every decoder whose address is among the account keys is invoked once,
\* and the invocations and the concatenated events follow registration order
\* whatever the order of the account keys.
C13_RegistrationOrder ==
    parsed.status = "returned" =>
        /\ parsed.invoked =
              SelectSeq(PARSERS, LAMBDA d : Includes(update.accountKeys, programAddress(d)))
        /\ parsed.events =
              parseAll([status |-> "returned", events |-> <<>>, invoked |-> <<>>,
                        thrown |-> <<>>, at |-> parsed.at],
                       SelectSeq(PARSERS, LAMBDA d : Includes(update.accountKeys, programAddress(d))),
                       update, parsed.at).events

\* Holds of the code: every involved decoder is invoked exactly once.
C13_EveryInvolvedDecoderOnce ==
    parsed.status = "returned" =>
        /\ Range(parsed.invoked) =
              { d \in Range(PARSERS) : Includes(update.accountKeys, programAddress(d)) }
        /\ Cardinality(Range(parsed.invoked)) = Len(parsed.invoked)

\* C14: the ids of one envelope's events are pairwise distinct, and each
\* decoder's ids are signature:programAddress:n with n = 0, 1, 2, ... in
\* emission order.
C14_EventIdsUnique ==
    parsed.status = "returned" =>
        /\ \A i, j \in DOMAIN parsed.events :
              parsed.events[i].id = parsed.events[j].id => i = j
        /\ \A d \in Range(PARSERS) :
              LET mine == EventsOf(d, parsed.events)
              IN  \A k \in DOMAIN mine :
                     mine[k].id = update.signature \o ":" \o mine[k].programAddress
                                      \o ":" \o ToString(k - 1)

\* C14 witness: the Meteora DBC decoder contributed its synthesized event
\* and another decoder two events.
C14_Witness ==
    /\ parsed.status = "returned"
    /\ Len(EventsOf("METEORA_DBC", parsed.events)) = 1
    /\ EventsOf("METEORA_DBC", parsed.events)[1].name = "EvtInitializePool"
    /\ Len(EventsOf("PUMP_BONDING_CURVE", parsed.events)) = 2

\* C15: two parseTransaction calls on the same envelope return equal lists.
C15_Deterministic ==
    (parsed.status # "none" /\ parsedBefore.status # "none") =>
        parsed.events = parsedBefore.events

----------------------------------------------------------------------------
(* The transform engine as a state machine: applyTransform(transform, event, pipelineId) *)

EvBuyNameSellFlag ==
    MkEvent("sig1:pswap:2", "PUMPSWAP", "BuyEvent", [is_buy |-> JsBool(FALSE)])
\* EvtSwap2 as the Meteora DBC decoder emits it: is_buy = (trade_direction = 1).
EvDbcDecoded0 ==
    MkEvent("sig1:dbc:2", "METEORA_DBC", "EvtSwap2",
            [trade_direction |-> JsNum(0), is_buy |-> JsBool(FALSE),
             pool |-> JsStr(WALLET_B), output_amount |-> JsStr("5")])
EvDbcDecoded1 ==
    MkEvent("sig1:dbc:3", "METEORA_DBC", "EvtSwap2",
            [trade_direction |-> JsNum(1), is_buy |-> JsBool(TRUE),
             pool |-> JsStr(WALLET_B), output_amount |-> JsStr("20")])
EvCreateNamed ==
    MkEvent("sig1:pump:3", "PUMP_BONDING_CURVE", "CreateEvent",
            [name |-> JsStr("Token"), mint |-> JsStr(PUMP_ADDR)])
EvCamelCase ==
    MkEvent("sig1:damm:0", "METEORA_DAMM_V2", "EvtSwap",
            [isBuy |-> JsBool(TRUE), tradeDirection |-> JsNum(1), solAmount |-> JsNum(0),
             virtualSolReserves |-> JsNum(20), virtualTokenReserves |-> JsNum(5)])
EvSellNameDir0 ==
    MkEvent("sig1:pswap:3", "PUMPSWAP", "SellEvent", [trade_direction |-> JsNum(0)])

TransformEvents ==
    FilterEvents \cup {EvBuyNameSellFlag, EvDbcDecoded0, EvDbcDecoded1, EvCreateNamed,
                       EvCamelCase, EvSellNameDir0}

Transforms ==
    { [mode |-> "template", template |-> "raw"],
      [mode |-> "template", template |-> "trade"],
      [mode |-> "template"],
      [mode |-> "code"],
      [mode |-> "code", template |-> "trade"],
      [mode |-> "none"] }

InitTransform ==
    /\ tTransform \in Transforms
    /\ tEvent \in TransformEvents
    /\ tPipelineId \in PipelineIds
    /\ tOutput = [status |-> "pending"]
    /\ EngineIdle
    /\ ExtraIdle
    /\ WebhookIdle
    /\ DeliverIdle
    /\ WsIdle
    /\ ParseIdle
    /\ FilterIdle

ApplyTransform ==
    /\ tOutput.status = "pending"
    /\ tOutput' = [status |-> "returned", out |-> applyTransform(tTransform, tEvent, tPipelineId)]
    /\ UNCHANGED <<tTransform, tEvent, tPipelineId>>
    /\ UNCHANGED notTransformVars

NextTransform == ApplyTransform

SpecTransform == InitTransform /\ [][NextTransform]_vars

----------------------------------------------------------------------------
(* Properties of the transform engine *)

\* The template applyTransform is asked for, when the mode is 'template'.
NamedTemplate(transform) ==
    IF transform.mode # "template" THEN "none"
    ELSE IF "template" \in DOMAIN transform THEN transform.template
    ELSE "raw"

\* C19: the trade template derives the direction with the documented
\* precedence: is_buy, else trade_direction (0 = buy), else the event name,
\* else 'swap'; the name or trade_direction never overrides is_buy.
C19_TradeDirectionPrecedence ==
    (tOutput.status = "returned" /\ NamedTemplate(tTransform) = "trade") =>
        tOutput.out.data.direction = JsStr(tradeDirectionByPrecedence(tEvent))

\* C20: with the raw template (named or by default) the output data has every
\* key of event.data, with its value, and the keys name, program and signer.
C20_RawKeepsEveryKey ==
    (tOutput.status = "returned" /\ NamedTemplate(tTransform) = "raw") =>
        /\ DOMAIN tEvent.data.v \cup {"name", "program", "signer"}
              \subseteq DOMAIN tOutput.out.data
        /\ \A k \in DOMAIN tEvent.data.v : tOutput.out.data[k] = tEvent.data.v[k]

\* C20 witness: no template is named and the event's data has several keys.
C20_Witness ==
    /\ tOutput.status = "returned"
    /\ tTransform = [mode |-> "template"]
    /\ tEvent = EvTradeBuy
    /\ DOMAIN tOutput.out.data =
          {"name", "program", "signer", "is_buy", "sol_amount", "token_amount", "mint"}

----------------------------------------------------------------------------
(* applyPipe as a state machine: a sequence of calls *)

MaxPipeCalls == 2

\* Reserves handed to a pipe, in units of 10^11 raw tokens, and values that
\* are not numbers.
PipeNumbers == {-7931, -1, 0, 1, 2, 3965, 3966, 7929, 7930, 7931, 7932, 20000}

PipeValues ==
    {JsNum(n) : n \in PipeNumbers} \cup {JsStr("0"), JsStr("abc"), JsNull, JsBool(TRUE)}

Pipes == {"bondingCurveProgress", "lamportsToSol", "identity"}

InitPipe ==
    /\ pipeCalls = <<>>
    /\ CoreIdle
    /\ CpiIdle
    /\ DbcIdle
    /\ MintIdle
    /\ LoaderIdle

ApplyPipe(value, pipe) ==
    /\ Len(pipeCalls) < MaxPipeCalls
    /\ pipeCalls' = Append(pipeCalls, [pipe |-> pipe, value |-> value,
                                       out |-> applyPipe(value, pipe)])
    /\ UNCHANGED notPipeVars

NextPipe == \E value \in PipeValues, pipe \in Pipes : ApplyPipe(value, pipe)

SpecPipe == InitPipe /\ [][NextPipe]_vars

----------------------------------------------------------------------------
(* Properties of the pipes *)

\* The bondingCurveProgress calls made so far.
ProgressCalls == {i \in DOMAIN pipeCalls : pipeCalls[i].pipe = "bondingCurveProgress"}

\* C21: bondingCurveProgress gives 0 for INITIAL and 100 for 0, a result in
\* [0, 100] for every input, and never a larger result for a larger input.
C21_BondingCurveProgress ==
    /\ \A i \in ProgressCalls :
          LET c == pipeCalls[i] IN
          /\ c.out.per = 100
          /\ c.out.v >= 0 /\ c.out.v <= 100 * 100
          /\ c.value = JsNum(7931) => c.out.v = 0
          /\ c.value = JsNum(0) => c.out.v = 100 * 100
    /\ \A i, j \in ProgressCalls :
          (/\ pipeCalls[i].value.t = "number" /\ pipeCalls[j].value.t = "number"
           /\ pipeCalls[i].value.v <= pipeCalls[j].value.v)
          => pipeCalls[j].out.v <= pipeCalls[i].out.v

\* C21 witness: progress of reserves above INITIAL and of negative reserves,
\* both clamped.
C21_Witness ==
    /\ Len(pipeCalls) = 2
    /\ pipeCalls[1] = [pipe |-> "bondingCurveProgress", value |-> JsNum(7932),
                       out |-> JsRatio(0, 100)]
    /\ pipeCalls[2] = [pipe |-> "bondingCurveProgress", value |-> JsNum(-1),
                       out |-> JsRatio(10000, 100)]

----------------------------------------------------------------------------
(* The inner-instruction loop as a state machine *)

\* Whether len bytes can hold, from byte `from` on, the discriminator w and a
\* body that decodes under w's layout.
CanDecode(w, len, from) ==
    CASE w = "evtEmpty" -> len >= from + 8
      [] w = "evt"      -> len >= from + 9
      [] w = "swap2"    -> len >= from + 8 + SWAP2_FIXED_BYTES
      [] OTHER          -> FALSE

CpiWords == {"cpi", "evtEmpty", "evt", "swap2", "other"}

CpiData ==
    { d \in [len : {8, 16, 17, 171}, w1 : CpiWords, w2 : CpiWords, ok1 : BOOLEAN, ok2 : BOOLEAN] :
        /\ d.ok1 => CanDecode(d.w1, d.len, 0)
        /\ d.ok2 => CanDecode(d.w2, d.len, 8)
        /\ d.w1 = "evtEmpty" => d.ok1
        /\ (d.w2 = "evtEmpty" /\ d.len >= 16) => d.ok2
        /\ d.len < 16 => d.w2 = "other" }

RECURSIVE SeqsOfLen(_, _)
SeqsOfLen(S, n) ==
    IF n = 0 THEN {<<>>} ELSE {Append(q, x) : q \in SeqsOfLen(S, n - 1), x \in S}

InitCpi ==
    /\ cpiDecoder \in CpiDecoders
    /\ \E n \in 0..MaxInner : cpiInner \in SeqsOfLen(CpiData, n)
    /\ cpiEvents = [status |-> "pending"]
    /\ CoreIdle
    /\ PipeIdle
    /\ DbcIdle
    /\ MintIdle
    /\ LoaderIdle

ExtractCPIEvents ==
    /\ cpiEvents.status = "pending"
    /\ cpiEvents' = [status |-> "returned",
                     events |-> extractCPIEvents(cpiDecoder, cpiInner, 1, <<>>)]
    /\ UNCHANGED <<cpiDecoder, cpiInner>>
    /\ UNCHANGED notCpiVars

NextCpi == ExtractCPIEvents

SpecCpi == InitCpi /\ [][NextCpi]_vars

----------------------------------------------------------------------------
(* Properties of CPI event decoding *)

\* The discriminators whose events a decoder knows.
KnownEvents(decoder) == IF decoder = "METEORA_DBC" THEN {"swap2"} ELSE {"evt", "evtEmpty"}

\* The events pushed for inner instruction i.
EventsOfInstruction(i) ==
    {k \in DOMAIN cpiEvents.events : cpiEvents.events[k].instruction = i}

\* C24: for inner-instruction data of at least 16 bytes, the first 8 bytes
\* are tried as an event discriminator and, whenever that attempt fails (no
\* match or a decode error), the data without its first 8 bytes is tried;
\* one event is emitted when either attempt succeeds, none otherwise.
C24_WrapperStrippedOnFailure ==
    cpiEvents.status = "returned" =>
        \A i \in DOMAIN cpiInner :
            LET d == cpiInner[i]
                firstSucceeds == d.w1 \in KnownEvents(cpiDecoder) /\ d.ok1
                retrySucceeds == d.w2 \in KnownEvents(cpiDecoder) /\ d.ok2
            IN  d.len >= 16 =>
                    Cardinality(EventsOfInstruction(i)) =
                        IF firstSucceeds \/ retrySucceeds THEN 1 ELSE 0

\* At most one event per inner instruction, and none for data under 16 bytes.
C24_AtMostOnePerInstruction ==
    cpiEvents.status = "returned" =>
        \A i \in DOMAIN cpiInner :
            /\ Cardinality(EventsOfInstruction(i)) <= 1
            /\ cpiInner[i].len < 16 => EventsOfInstruction(i) = {}

----------------------------------------------------------------------------
(* MeteoraDBCParser.parse (part_003:26-152): CPI events, and the event      *)
(* synthesized from a pool instruction when there is none.                 *)
(*                                                                         *)
(* An instruction is the raw-data record of the CPI section with the       *)
(* program it invokes; its first 8 bytes may also be one of the program's  *)
(* instruction discriminators "ixInitSpl", "ixInit2022", "ixMigration".    *)

\* Bound: the outer, and the inner, instructions of one envelope.
MaxIxs == 2

\* Mutant of matchInstructions: the invoked program is not looked at.
matchInstructionsAnyProgram(instructions) ==
    LET hits == {i \in DOMAIN instructions :
                    /\ instructions[i].len >= 8
                    /\ instructions[i].w1 \in {"ixInitSpl", "ixInit2022", "ixMigration"}}
    IN  IF hits = {} THEN "null"
        ELSE LET ix == instructions[CHOOSE i \in hits : \A j \in hits : i <= j]
             IN  IF ix.w1 = "ixMigration" THEN "EvtMigrationDAMMV2" ELSE "EvtInitializePool"

\* matchInstructions (lines 115-152): the name for the first instruction of
\* the program whose discriminator is a pool initialization or the migration.
RECURSIVE matchInstructions(_)
matchInstructions(instructions) ==
    IF instructions = <<>> THEN "null"
    ELSE LET ix == Head(instructions)
         IN  IF ix.program # "METEORA_DBC" \/ ix.len < 8 THEN matchInstructions(Tail(instructions))
             ELSE IF ix.w1 \in {"ixInitSpl", "ixInit2022"} THEN "EvtInitializePool"
             ELSE IF ix.w1 = "ixMigration" THEN "EvtMigrationDAMMV2"
             ELSE matchInstructions(Tail(instructions))

\* detectTransactionType (lines 95-110): outer instructions first.
detectTransactionType(tx) ==
    IF matchInstructions(tx.outer) # "null" THEN matchInstructions(tx.outer)
    ELSE matchInstructions(tx.inner)

\* parse (lines 43-90) for an envelope that lists the program.
dbcParse(tx) ==
    LET txType == detectTransactionType(tx)
        cpi == extractCPIEvents("METEORA_DBC", tx.inner, 1, <<>>)
        events == [i \in DOMAIN cpi |->
                      [id |-> EventId("sig1", DBC_ADDR, i - 1), name |-> "EvtSwap2"]]
    IN  IF events = <<>> /\ txType # "null"
        THEN <<[id |-> EventId("sig1", DBC_ADDR, 0), name |-> txType]>>
        ELSE events

DbcIx(program, len, w1, w2, ok2) ==
    [program |-> program, len |-> len, w1 |-> w1, ok1 |-> FALSE, w2 |-> w2, ok2 |-> ok2]

DbcInstructions ==
    { DbcIx("METEORA_DBC", 171, "cpi", "swap2", TRUE),
      DbcIx("METEORA_DBC", 16, "ixInitSpl", "other", FALSE),
      DbcIx("METEORA_DBC", 16, "ixInit2022", "other", FALSE),
      DbcIx("METEORA_DBC", 16, "ixMigration", "other", FALSE),
      DbcIx("PUMPSWAP", 16, "ixInitSpl", "other", FALSE),
      DbcIx("METEORA_DBC", 4, "other", "other", FALSE),
      DbcIx("METEORA_DBC", 16, "other", "other", FALSE) }

InitDbc ==
    /\ \E n, k \in 0..MaxIxs :
          dbcTx \in [outer : SeqsOfLen(DbcInstructions, n), inner : SeqsOfLen(DbcInstructions, k)]
    /\ dbcParsed = [status |-> "pending"]
    /\ CoreIdle
    /\ PipeIdle
    /\ CpiIdle
    /\ MintIdle
    /\ LoaderIdle

DbcParse ==
    /\ dbcParsed.status = "pending"
    /\ dbcParsed' = [status |-> "returned", events |-> dbcParse(dbcTx)]
    /\ UNCHANGED dbcTx
    /\ UNCHANGED notDbcVars

NextDbc == DbcParse

SpecDbc == InitDbc /\ [][NextDbc]_vars

----------------------------------------------------------------------------
(* Properties of the Meteora DBC decoder *)

\* The pool-initialization and migration instructions of the program, outer
\* instructions before inner ones.
PoolInstructions ==
    SelectSeq(dbcTx.outer \o dbcTx.inner,
              LAMBDA ix : /\ ix.program = "METEORA_DBC"
                          /\ ix.len >= 8
                          /\ ix.w1 \in {"ixInitSpl", "ixInit2022", "ixMigration"})

\* The inner instructions whose data holds an EvtSwap2.
SwapInstructions ==
    SelectSeq(dbcTx.inner, LAMBDA ix : ix.len >= 16 /\ ix.w2 = "swap2" /\ ix.ok2)

\* C25: the DBC decoder returns a synthesized event exactly when the envelope
\* has a pool-initialization or migration instruction of the program and no
\* CPI event was decoded: then the result is one event, named after the
\* instruction, with index 0; otherwise the result is the CPI events alone.
C25_SynthesizedEvent ==
    dbcParsed.status = "returned" =>
        IF SwapInstructions = <<>> /\ PoolInstructions # <<>>
        THEN /\ Len(dbcParsed.events) = 1
             /\ dbcParsed.events[1].name =
                    (IF PoolInstructions[1].w1 = "ixMigration"
                     THEN "EvtMigrationDAMMV2" ELSE "EvtInitializePool")
             /\ dbcParsed.events[1].id = "sig1:dbcij3LWUppWqq96dh6gJWwBifmcGfLSB5D4DuSMaqN:0"
        ELSE /\ Len(dbcParsed.events) = Len(SwapInstructions)
             /\ \A i \in DOMAIN dbcParsed.events : dbcParsed.events[i].name = "EvtSwap2"

\* C25 witness: a migration reached through an inner instruction, after an
\* outer instruction of another program with the initialization discriminator.
C25_Witness ==
    /\ dbcParsed.status = "returned"
    /\ dbcTx.outer = <<DbcIx("PUMPSWAP", 16, "ixInitSpl", "other", FALSE)>>
    /\ dbcTx.inner = <<DbcIx("METEORA_DBC", 16, "ixMigration", "other", FALSE)>>
    /\ Len(dbcParsed.events) = 1
    /\ dbcParsed.events[1].name = "EvtMigrationDAMMV2"

----------------------------------------------------------------------------
(* Token identity inference from meta.postTokenBalances                     *)
(* (part_003:319-343 and 50-57, part_001:134-153, part_002:104-124,         *)
(* meteora-dlmm.ts:128-147)                                                *)

\* Bound: the entries of postTokenBalances.
MaxBalances == 3

WSOL == "So11111111111111111111111111111111111111112"

\* The loop over postBalances: whether WSOL was seen, and the other mints in
\* order of first appearance; an entry without a mint is skipped.
RECURSIVE scanBalances(_, _)
scanBalances(balances, acc) ==
    IF balances = <<>> THEN acc
    ELSE LET mint == Head(balances)
             next == IF mint = "" THEN acc
                     ELSE IF mint = WSOL THEN [acc EXCEPT !.hasWsol = TRUE]
                     ELSE IF Includes(acc.nonSolMints, mint) THEN acc
                     ELSE [acc EXCEPT !.nonSolMints = Append(@, mint)]
         IN  scanBalances(Tail(balances), next)

\* The DAMM v1, DAMM v2 and DLMM decoders' extractEventData: token_mint and
\* quote_mint are set when a non-native mint was found.
anchorTokenMints(balances) ==
    LET seen == scanBalances(balances, [hasWsol |-> FALSE, nonSolMints |-> <<>>])
    IN  IF Len(seen.nonSolMints) > 0
        THEN [token_mint |-> JsStr(seen.nonSolMints[1]),
              quote_mint |-> IF seen.hasWsol THEN JsStr(WSOL)
                             ELSE IF Len(seen.nonSolMints) > 1 THEN JsStr(seen.nonSolMints[2])
                             ELSE JsNull]
        ELSE EmptyObject

\* MeteoraDBCParser.extractTokenMints and the enrichment of EvtSwap2
\* (part_003:319-343, 52-57): quoteMint || WSOL.
dbcTokenMints(balances) ==
    LET seen == scanBalances(balances, [hasWsol |-> FALSE, nonSolMints |-> <<>>])
    IN  IF Len(balances) = 0 \/ Len(seen.nonSolMints) = 0 THEN EmptyObject
        ELSE [token_mint |-> JsStr(seen.nonSolMints[1]), quote_mint |-> JsStr(WSOL)]

inferTokenMints(decoder, balances) ==
    IF decoder = "METEORA_DBC" THEN dbcTokenMints(balances) ELSE anchorTokenMints(balances)

Mints == {WSOL, "mintA", "mintB", ""}

InitMint ==
    /\ mintDecoder \in CpiDecoders
    /\ \E n \in 0..MaxBalances : postTokenBalances \in SeqsOfLen(Mints, n)
    /\ mintData = [status |-> "pending"]
    /\ CoreIdle
    /\ PipeIdle
    /\ CpiIdle
    /\ DbcIdle
    /\ LoaderIdle

InferTokenMints ==
    /\ mintData.status = "pending"
    /\ mintData' = [status |-> "returned", data |-> inferTokenMints(mintDecoder, postTokenBalances)]
    /\ UNCHANGED <<mintDecoder, postTokenBalances>>
    /\ UNCHANGED notMintVars

NextMint == InferTokenMints

SpecMint == InitMint /\ [][NextMint]_vars

----------------------------------------------------------------------------
(* Properties of token identity inference *)

\* The distinct non-native mints of the balances, in order of first appearance.
RECURSIVE Distinct(_)
Distinct(seq) ==
    IF seq = <<>> THEN <<>>
    ELSE LET rest == Distinct(SubSeq(seq, 1, Len(seq) - 1))
             last == seq[Len(seq)]
         IN  IF last \in Range(rest) THEN rest ELSE Append(rest, last)

NonNativeMints == Distinct(SelectSeq(postTokenBalances, LAMBDA x : x # "" /\ x # WSOL))

\* C26: token_mint is the first non-native mint; quote_mint is the
\* wrapped-native mint when it appears in the balances, otherwise the second
\* distinct non-native mint.
C26_TokenIdentity ==
    (mintData.status = "returned" /\ NonNativeMints # <<>>) =>
        /\ DOMAIN mintData.data = {"token_mint", "quote_mint"}
        /\ mintData.data.token_mint = JsStr(NonNativeMints[1])
        /\ WSOL \in Range(postTokenBalances) => mintData.data.quote_mint = JsStr(WSOL)
        /\ (WSOL \notin Range(postTokenBalances) /\ Len(NonNativeMints) > 1)
              => mintData.data.quote_mint = JsStr(NonNativeMints[2])

\* The same for the DAMM v1, DAMM v2 and DLMM decoders alone.
C26_TokenIdentityAnchorDecoders ==
    mintDecoder # "METEORA_DBC" => C26_TokenIdentity

----------------------------------------------------------------------------
(* The pipeline loader of the ingestion process                             *)
(* (apps/ingestion/src/pipeline-loader.ts)                                  *)

\* Bound: the syncPipelines runs started in one behaviour.
MaxSyncs == 3

\* A row of the pipelines table; name is "" for null.
DbRow(id, programs) ==
    [id |-> id, api_key |-> "key", name |-> "", programs |-> programs,
     filter |-> EmptyObject, transform |-> RawTransform, destinations |-> WsDestinations,
     status |-> "active"]

DbRows == { DbRow("p1", <<"PUMP_BONDING_CURVE">>),
            DbRow("p1", <<"PUMPSWAP">>),
            DbRow("p2", <<"PUMP_BONDING_CURVE", "PUMPSWAP">>) }

\* The contents the table can have: id is its primary key.
StoreStates == { S \in SUBSET DbRows : \A r1, r2 \in S : r1.id = r2.id => r1 = r2 }

\* The rows a select returns, as an array.
RECURSIVE RowList(_)
RowList(S) ==
    IF S = {} THEN <<>>
    ELSE LET r == CHOOSE x \in S : \A y \in S : x.id = "p1" \/ y.id # "p1"
         IN  <<r>> \o RowList(S \ {r})

\* toPipeline (pipeline-loader.ts:37-50); the two dates are left out.
toPipeline(row) ==
    [id |-> row.id,
     name |-> IF row.name = "" THEN "Pipeline " \o row.id ELSE row.name,
     apiKey |-> row.api_key,
     programs |-> row.programs,
     filter |-> row.filter,
     transform |-> row.transform,
     destinations |-> row.destinations,
     status |-> row.status]

\* What the awaited select resolves to.
QueryFailed == [error |-> TRUE, data |-> <<>>]
QueryData(S) == [error |-> FALSE, data |-> RowList(S)]

\* loadPipelinesFromDb once the select resolved (pipeline-loader.ts:82-87).
loadPipelinesFromDb(response) ==
    IF response.error THEN <<>>
    ELSE [i \in 1..Len(response.data) |-> toPipeline(response.data[i])]

\* engine.upsertPipeline and engine.removePipeline on the engine's two maps
\* (part_008:42-67).
upsertPipeline(eng, pipeline) ==
    [pipelines |-> Merge(eng.pipelines, [k \in {pipeline.id} |-> pipeline]),
     programIndex |->
        addToIndex(IF pipeline.id \in DOMAIN eng.pipelines
                   THEN removeFromIndex(eng.programIndex, eng.pipelines, pipeline.id)
                   ELSE eng.programIndex,
                   pipeline)]

removePipeline(eng, id) ==
    IF id \notin DOMAIN eng.pipelines THEN eng
    ELSE [pipelines |-> Without(eng.pipelines, {id}),
          programIndex |-> removeFromIndex(eng.programIndex, eng.pipelines, id)]

\* for (const pipeline of dbPipelines) upsertPipeline(pipeline)
RECURSIVE upsertAll(_, _, _)
upsertAll(eng, dbPipelines, i) ==
    IF i > Len(dbPipelines) THEN eng
    ELSE upsertAll(upsertPipeline(eng, dbPipelines[i]), dbPipelines, i + 1)

RECURSIVE removeAll(_, _)
removeAll(eng, ids) ==
    IF ids = {} THEN eng
    ELSE LET id == CHOOSE x \in ids : TRUE
         IN  removeAll(removePipeline(eng, id), ids \ {id})

staleIdsNone(loaded, dbPipelineIds) == {}

\* The ids the second loop of syncPipelines removes (pipeline-loader.ts:105-110).
staleIds(loaded, dbPipelineIds) == loaded \ dbPipelineIds

\* syncPipelines from the resolved read to its return (pipeline-loader.ts:97-116):
\* no await is left, so this part runs without interruption.
syncApply(eng, loaded, dbPipelines) ==
    LET dbPipelineIds == { dbPipelines[i].id : i \in 1..Len(dbPipelines) }
    IN  [engine |-> removeAll(upsertAll(eng, dbPipelines, 1), staleIds(loaded, dbPipelineIds)),
         loadedPipelineIds |-> dbPipelineIds]

\* syncPipelines up to its await: with no client, loadPipelinesFromDb resolves to []
\* without a read.
SyncStarted ==
    IF supabase = "client" THEN [pc |-> "reading"]
    ELSE [pc |-> "answered", response |-> QueryData({})]

InFlight(c) == runs[c].pc \in {"reading", "answered"}

InitLoader ==
    /\ pipelineEngine = "null"
    /\ supabase \in {"unset", "client"}
    /\ pollTimer = "null"
    /\ loadedPipelineIds = {}
    /\ store \in StoreStates
    /\ runs = [c \in Callers |-> NoRun]
    /\ ldStarted = 0
    /\ ldLast = NoSync
    /\ CoreIdle
    /\ PipeIdle
    /\ CpiIdle
    /\ DbcIdle
    /\ MintIdle

\* initPipelineLoader(engine) up to its await (pipeline-loader.ts:148-158).
InitPipelineLoader ==
    /\ pipelineEngine = "null"
    /\ runs["init"].pc = "idle"
    /\ pipelineEngine' = "engine"
    /\ IF supabase = "client"
       THEN /\ runs' = [runs EXCEPT !["init"] = SyncStarted]
            /\ ldStarted' = ldStarted + 1
       ELSE /\ runs' = [runs EXCEPT !["init"] = [pc |-> "returned"]]
            /\ UNCHANGED ldStarted
    /\ UNCHANGED <<supabase, pollTimer, loadedPipelineIds, store, ldLast, pipelines,
                   programIndex>>
    /\ UNCHANGED notLoaderVars

\* initPipelineLoader after its await: startPolling() and return
\* (pipeline-loader.ts:160-163, 122-130).
InitReturns ==
    /\ runs["init"].pc = "done"
    /\ runs' = [runs EXCEPT !["init"] = [pc |-> "returned"]]
    /\ pollTimer' = "timer"
    /\ UNCHANGED <<pipelineEngine, supabase, loadedPipelineIds, store, ldStarted, ldLast,
                   pipelines, programIndex>>
    /\ UNCHANGED notLoaderVars

\* The interval callback calls syncPipelines (pipeline-loader.ts:125-127).
TimerFires ==
    /\ pollTimer = "timer"
    /\ runs["timer"].pc = "idle"
    /\ ldStarted < MaxSyncs
    /\ runs' = [runs EXCEPT !["timer"] = SyncStarted]
    /\ ldStarted' = ldStarted + 1
    /\ UNCHANGED <<pipelineEngine, supabase, pollTimer, loadedPipelineIds, store, ldLast,
                   pipelines, programIndex>>
    /\ UNCHANGED notLoaderVars

\* refreshPipelines() calls syncPipelines (pipeline-loader.ts:177-180); with no engine
\* the run returns at once (pipeline-loader.ts:94).
RefreshPipelines ==
    /\ runs["refresh"].pc = "idle"
    /\ ldStarted < MaxSyncs
    /\ ldStarted' = ldStarted + 1
    /\ IF pipelineEngine = "null"
       THEN /\ ldLast' = [caller |-> "refresh", applied |-> FALSE]
            /\ UNCHANGED runs
       ELSE /\ runs' = [runs EXCEPT !["refresh"] = SyncStarted]
            /\ UNCHANGED ldLast
    /\ UNCHANGED <<pipelineEngine, supabase, pollTimer, loadedPipelineIds, store, pipelines,
                   programIndex>>
    /\ UNCHANGED notLoaderVars

\* The select of a run resolves: with the table's rows of this moment, or with an error.
StoreAnswers(c, ok) ==
    /\ runs[c].pc = "reading"
    /\ runs' = [runs EXCEPT ![c] = [pc |-> "answered",
                                    response |-> IF ok THEN QueryData(store) ELSE QueryFailed]]
    /\ UNCHANGED <<pipelineEngine, supabase, pollTimer, loadedPipelineIds, store, ldStarted,
                   ldLast, pipelines, programIndex>>
    /\ UNCHANGED notLoaderVars

\* A run resumes after its await and runs to its return (pipeline-loader.ts:96-116).
SyncContinues(c) ==
    /\ runs[c].pc = "answered"
    /\ LET dbPipelines == loadPipelinesFromDb(runs[c].response)
           after == syncApply([pipelines |-> pipelines, programIndex |-> programIndex],
                              loadedPipelineIds, dbPipelines)
       IN  /\ pipelines' = after.engine.pipelines
           /\ programIndex' = after.engine.programIndex
           /\ loadedPipelineIds' = after.loadedPipelineIds
           /\ ldLast' = [caller |-> c, applied |-> TRUE,
                         failed |-> runs[c].response.error,
                         ids |-> { dbPipelines[i].id : i \in 1..Len(dbPipelines) },
                         before |-> loadedPipelineIds,
                         overlapped |-> \E o \in Callers \ {c} : InFlight(o)]
    /\ runs' = [runs EXCEPT ![c] = IF c = "init" THEN [pc |-> "done"] ELSE NoRun]
    /\ UNCHANGED <<pipelineEngine, supabase, pollTimer, store, ldStarted>>
    /\ UNCHANGED notLoaderVars

\* The API process writes to the pipelines table.
StoreChanges(S) ==
    /\ S # store
    /\ store' = S
    /\ UNCHANGED <<pipelineEngine, supabase, pollTimer, loadedPipelineIds, runs, ldStarted,
                   ldLast, pipelines, programIndex>>
    /\ UNCHANGED notLoaderVars

StoreAnswersStep == \E c \in Callers, ok \in BOOLEAN : StoreAnswers(c, ok)
SyncContinuesStep == \E c \in Callers : SyncContinues(c)
StoreChangesStep == \E S \in StoreStates : StoreChanges(S)

NextLoader ==
    \/ InitPipelineLoader
    \/ InitReturns
    \/ TimerFires
    \/ RefreshPipelines
    \/ StoreAnswersStep
    \/ SyncContinuesStep
    \/ StoreChangesStep

SpecLoader == InitLoader /\ [][NextLoader]_vars

----------------------------------------------------------------------------
(* Properties of the pipeline loader *)

\* C30: once a syncPipelines run has completed, overlapping runs included, the ids
\* the engine holds are loadedPipelineIds and are the ids of the snapshot read by the
\* run that applied last; a run whose read failed applied the empty snapshot, so the
\* engine holds no pipeline after it.
C30_EngineFollowsLastAppliedSnapshot ==
    ldLast.caller # "none" =>
        /\ DOMAIN pipelines = loadedPipelineIds
        /\ ldLast.applied => loadedPipelineIds = ldLast.ids
        /\ (ldLast.applied /\ ldLast.failed) => DOMAIN pipelines = {}

\* A run whose read failed completed while another run, holding a snapshot with
\* pipelines in it, was still in flight, and pipelines were loaded before it.
C30_Witness ==
    /\ ldLast.caller # "none"
    /\ ldLast.applied
    /\ ldLast.failed
    /\ ldLast.overlapped
    /\ ldLast.before # {}
    /\ \E o \in Callers : runs[o].pc = "answered" /\ Len(runs[o].response.data) > 0

----------------------------------------------------------------------------
(* The filter engine as a state machine: one call of evaluateFilter *)

InitFilter ==
    /\ fFilter \in Filters
    /\ fEvent \in FilterEvents \cup {EvNullField}
    /\ fResult = "pending"
    /\ EngineIdle
    /\ ExtraIdle
    /\ WebhookIdle
    /\ DeliverIdle
    /\ WsIdle
    /\ ParseIdle
    /\ TransformIdle

\* evaluateFilter(fFilter, fEvent) returns or raises.
EvaluateFilter ==
    /\ fResult = "pending"
    /\ fResult' = IF evaluateFilterThrows(fFilter, fEvent) THEN "throw"
                  ELSE IF evaluateFilter(fFilter, fEvent) THEN "true" ELSE "false"
    /\ UNCHANGED <<fFilter, fEvent>>
    /\ UNCHANGED notFilterVars

NextFilter == EvaluateFilter

SpecFilter == InitFilter /\ [][NextFilter]_vars

----------------------------------------------------------------------------
(* Properties of the filter engine *)


\* What the convenience predicates are documented to read from an event.
FirstPresent(d, names) ==
    LET idx == {i \in DOMAIN names : names[i] \in DOMAIN d /\ ~ToNumber(d[names[i]]).nan}
    IN  IF idx = {} THEN NaN
        ELSE ToNumber(d[names[CHOOSE i \in idx : \A j \in idx : i <= j]])

SolFieldNames ==
    <<"sol_amount", "solAmount", "quote_amount", "quoteAmount",
      "sol_reserve_amount", "solReserveAmount">>
TokenFieldNames ==
    <<"token_amount", "tokenAmount", "base_amount", "baseAmount", "amount">>

DirectionDerivable(event) ==
    LET d == event.data.v
    IN  \/ "is_buy" \in DOMAIN d
        \/ "trade_direction" \in DOMAIN d
        \/ includes(toLowerCase(event.name.v), "buy")
        \/ includes(toLowerCase(event.name.v), "sell")

DerivedIsBuy(event) ==
    LET d == event.data.v
    IN  IF "is_buy" \in DOMAIN d THEN d.is_buy = JsBool(TRUE)
        ELSE IF "trade_direction" \in DOMAIN d THEN d.trade_direction = JsNum(0)
        ELSE includes(toLowerCase(event.name.v), "buy")

DerivedLamports(event) == FirstPresent(event.data.v, SolFieldNames)
DerivedTokens(event)   == FirstPresent(event.data.v, TokenFieldNames)

Derivable(key, event) ==
    CASE key = "isBuy"       -> DirectionDerivable(event)
      [] key = "solAmount"   -> ~DerivedLamports(event).nan
      [] key = "tokenAmount" -> ~DerivedTokens(event).nan

\* amount (scaled by unit) lies outside [range.min, range.max]
OutOfRange(amount, unit, range) ==
    \/ "min" \in DOMAIN range /\ amount < range.min * unit
    \/ "max" \in DOMAIN range /\ amount > range.max * unit

\* The predicates of the filter object are reached (neither $and nor $or decides).
ReachesPredicates(filter) ==
    /\ DOMAIN filter # {}
    /\ ~HasList(filter, "$and")
    /\ ~HasList(filter, "$or")

ConvenienceKeys == {"isBuy", "solAmount", "tokenAmount"}

\* The filter without the convenience predicates the event gives no value for.
RECURSIVE StripUnderivable(_, _)
StripUnderivable(filter, event) ==
    LET kept == Without(filter, {k \in ConvenienceKeys \cap DOMAIN filter : ~Derivable(k, event)})
    IN  [k \in DOMAIN kept |->
            IF k \in {"$and", "$or"}
            THEN [i \in DOMAIN kept[k] |-> StripUnderivable(kept[k][i], event)]
            ELSE kept[k]]

fReturned == fResult \in {"true", "false"}

\* C8: the empty filter passes every event; a non-empty $and is the conjunction
\* of its children; a non-empty $or (with $and absent or empty) is the
\* disjunction of its children.
C8_LogicalComposition ==
    fReturned =>
        /\ (DOMAIN fFilter = {} => fResult = "true")
        /\ (HasList(fFilter, "$and") =>
                ((fResult = "true") <=>
                    \A i \in DOMAIN fFilter["$and"] : evaluateFilter(fFilter["$and"][i], fEvent)))
        /\ ((~HasList(fFilter, "$and") /\ HasList(fFilter, "$or")) =>
                ((fResult = "true") <=>
                    \E i \in DOMAIN fFilter["$or"] : evaluateFilter(fFilter["$or"][i], fEvent)))

\* C8 witness: a nested $or with one failing child and one passing $and child.
C8_Witness ==
    /\ fResult = "true"
    /\ ~HasList(fFilter, "$and")
    /\ HasList(fFilter, "$or")
    /\ \E i \in DOMAIN fFilter["$or"] : ~evaluateFilter(fFilter["$or"][i], fEvent)
    /\ \E i \in DOMAIN fFilter["$or"] :
          /\ HasList(fFilter["$or"][i], "$and")
          /\ evaluateFilter(fFilter["$or"][i], fEvent)

\* C9: a reached isBuy / solAmount / tokenAmount predicate rejects an event
\* whose derived direction differs or whose derived amount is out of range.
C9_ConvenienceEnforced ==
    (fReturned /\ ReachesPredicates(fFilter)) =>
        /\ ( ( /\ "isBuy" \in DOMAIN fFilter
               /\ DirectionDerivable(fEvent)
               /\ DerivedIsBuy(fEvent) # fFilter.isBuy ) => fResult = "false" )
        /\ ( ( /\ "solAmount" \in DOMAIN fFilter
               /\ ~DerivedLamports(fEvent).nan
               /\ OutOfRange(DerivedLamports(fEvent).v, LAMPORTS_PER_SOL, fFilter.solAmount) )
             => fResult = "false" )
        /\ ( ( /\ "tokenAmount" \in DOMAIN fFilter
               /\ ~DerivedTokens(fEvent).nan
               /\ OutOfRange(DerivedTokens(fEvent).v, 1, fFilter.tokenAmount) )
             => fResult = "false" )

\* C10: a convenience predicate whose value the event does not give never
\* rejects: the result is that of the filter without those predicates.
C10_SkipRule ==
    fReturned =>
        ((fResult = "true") <=> evaluateFilter(StripUnderivable(fFilter, fEvent), fEvent))

\* C10 witness: isBuy and an instruction list on an event with no direction;
\* the instruction list alone decides (both outcomes are reached).
C10_Witness ==
    /\ fReturned
    /\ ReachesPredicates(fFilter)
    /\ "isBuy" \in DOMAIN fFilter
    /\ ~DirectionDerivable(fEvent)
    /\ StripUnderivable(fFilter, fEvent) # fFilter
    /\ fResult = "true"

\* The one condition of a filter that has nothing but one condition.
OneCondition == "conditions" \in DOMAIN fFilter /\ DOMAIN fFilter = {"conditions"}
                   /\ Len(fFilter.conditions) = 1 /\ "field" \in DOMAIN fFilter.conditions[1]

TheActual == getFieldValue(fEvent, fFilter.conditions[1].field)

TheExpected ==
    IF "value" \in DOMAIN fFilter.conditions[1] THEN fFilter.conditions[1].value ELSE JsUndefined

\* C27: against an undefined or null actual value eq holds exactly for a
\* null / undefined expected value, neq exactly otherwise, every other
\* operator fails; for a defined actual value neq negates eq and nin negates
\* in; an unknown operator fails.
C27_NullishAndNegations ==
    (fReturned /\ OneCondition) =>
        LET op == fFilter.conditions[1].op
            passed == fResult = "true"
        IN  /\ TheActual.t \in {"undefined", "null"} =>
                  /\ op = "eq" => (passed <=> TheExpected.t \in {"undefined", "null"})
                  /\ op = "neq" => (passed <=> TheExpected.t \notin {"undefined", "null"})
                  /\ op \notin {"eq", "neq"} => ~passed
            /\ TheActual.t \notin {"undefined", "null"} =>
                  /\ op = "neq" => (passed <=> ~compareValues(TheActual, "eq", TheExpected))
                  /\ op = "nin" => (passed <=> ~compareValues(TheActual, "in", TheExpected))
            /\ op = "regex" => ~passed

\* C27 witness: neq of a null field against a number passes.
C27_Witness ==
    /\ fReturned
    /\ OneCondition
    /\ fFilter.conditions[1] = [field |-> <<"data", "referrer">>, op |-> "neq", value |-> JsNum(5)]
    /\ fEvent = EvNullField
    /\ fResult = "true"

\* The filter with nothing but its key `key`.
Only(filter, key) == [k \in {key} |-> filter[k]]

=============================================================================
